---------------------------- MODULE Spec2Model ----------------------------
(***************************************************************************)
(* Model of backend/floor_plate_optimizer.py: FloorPlateOptimizer and its  *)
(* generate_variants state machine                                         *)
(*     INIT -> TEMPLATE_SWEEP -> RANDOM_FALLBACK -> RANKED -> RETURNED.    *)
(*                                                                         *)
(* Numbers.  The program computes in floating point metres.  The model    *)
(* computes in integers: lengths in centimetres, areas in square          *)
(* centimetres, ratios in fixed point (the number of decimals is in each  *)
(* operator's name or comment), every division rounding down.  Sites are  *)
(* axis-aligned rectangles [0,W] x [0,H].                                  *)
(*                                                                         *)
(* Objects.  Python objects that can be aliased (lists, PlacedUnit,       *)
(* PlacedCore, Corridor) live in `heap`, a sequence of records indexed by *)
(* address; a field that holds such an object holds its address.          *)
(*                                                                         *)
(* Random source.  Python's module-level `random` is a deterministic      *)
(* generator with hidden state; it is modelled by a generator of period   *)
(* RngMod whose state `rng` is drawn nondeterministically at Init.        *)
(***************************************************************************)
EXTENDS Integers, Sequences, FiniteSets, TLC

(***************************************************************************)
(* Bounds of the model                                                     *)
(***************************************************************************)
\* period of the modelled random source
RngMod == 8
\* number of client edits of a returned result that are explored
MaxEdits == 1

(***************************************************************************)
(* Program constants (centimetres unless said otherwise)                   *)
(***************************************************************************)
\* `buffered.area < 100` and `building_polygon.area < 100`, in cm^2
MinArea == 1000000
\* the literal 3 of `self.regulations.max_unit_depth * 2 + 3`
DepthCapCorridor == 300
\* the literal 3 of `x_pos < origin_x + floor_width - 3` and `x_pos + 3 > core_left`
MinUnitSpan == 300
\* `x_pos = core_right + 0.5`
CoreClearance == 50
\* `x_pos += unit_width + 0.3`
UnitGap == 30

(***************************************************************************)
(* Arithmetic helpers                                                      *)
(***************************************************************************)
\* the element of a one-element set.  Only({F(v) : v \in {e}}) is F(e) with e
\* computed once: a local variable v
Only(S) == CHOOSE e \in S : TRUE

Min2(a, b) == IF a <= b THEN a ELSE b
Max2(a, b) == IF a >= b THEN a ELSE b
Abs(a) == IF a >= 0 THEN a ELSE -a

RECURSIVE Pow10(_)
Pow10(n) == IF n = 0 THEN 1 ELSE 10 * Pow10(n - 1)

\* floor(a * 10^n / c) for c > 0, computed digit by digit so that no
\* intermediate product leaves the machine integers
RECURSIVE ScaledDiv(_, _, _)
ScaledDiv(a, c, n) ==
    IF n = 0 THEN a \div c
    ELSE (a \div c) * Pow10(n) + ScaledDiv((a % c) * 10, c, n - 1)

\* floor(sqrt(n)) by bisection on [lo, hi]
RECURSIVE IsqrtIn(_, _, _)
IsqrtIn(n, lo, hi) ==
    IF lo >= hi THEN lo
    ELSE Only({IF mid * mid <= n THEN IsqrtIn(n, mid, hi) ELSE IsqrtIn(n, lo, mid - 1)
                 : mid \in {(lo + hi + 1) \div 2}})

Isqrt(n) == Only({IsqrtIn(v, 0, 40000) : v \in {n}})

RECURSIVE SumSeq(_)
SumSeq(s) == IF s = <<>> THEN 0 ELSE Head(s) + SumSeq(Tail(s))

(***************************************************************************)
(* Geometry: a polygon is the union of a sequence of boxes                 *)
(***************************************************************************)
box(minx, miny, maxx, maxy) == [x0 |-> minx, y0 |-> miny, x1 |-> maxx, y1 |-> maxy]

BoxArea(b) == IF b.x1 > b.x0 /\ b.y1 > b.y0 THEN (b.x1 - b.x0) * (b.y1 - b.y0) ELSE 0

BoxMeet(a, b) ==
    box(Max2(a.x0, b.x0), Max2(a.y0, b.y0), Min2(a.x1, b.x1), Min2(a.y1, b.y1))

\* area of unary_union(boxes), by inclusion and exclusion (at most 3 boxes)
PolygonArea(boxes) ==
    LET n == Len(boxes)
        single == SumSeq([i \in 1..n |-> BoxArea(boxes[i])])
        pairs  == IF n < 2 THEN 0
                  ELSE BoxArea(BoxMeet(boxes[1], boxes[2]))
                       + (IF n < 3 THEN 0
                          ELSE BoxArea(BoxMeet(boxes[1], boxes[3]))
                               + BoxArea(BoxMeet(boxes[2], boxes[3])))
        triple == IF n < 3 THEN 0
                  ELSE BoxArea(BoxMeet(BoxMeet(boxes[1], boxes[2]), boxes[3]))
    IN  single - pairs + triple

RECURSIVE MinOf(_)
MinOf(s) == IF Len(s) = 1 THEN s[1] ELSE Min2(Head(s), MinOf(Tail(s)))
RECURSIVE MaxOf(_)
MaxOf(s) == IF Len(s) = 1 THEN s[1] ELSE Max2(Head(s), MaxOf(Tail(s)))

\* polygon.bounds
PolygonBounds(boxes) ==
    LET n == Len(boxes)
    IN  box(MinOf([i \in 1..n |-> boxes[i].x0]), MinOf([i \in 1..n |-> boxes[i].y0]),
            MaxOf([i \in 1..n |-> boxes[i].x1]), MaxOf([i \in 1..n |-> boxes[i].y1]))

\* first moments of a box about (ox, oy), in units of 1000 cm^3
BoxMomentX(b, ox) == (BoxArea(b) \div 1000) * (((b.x0 + b.x1) \div 2) - ox)
BoxMomentY(b, oy) == (BoxArea(b) \div 1000) * (((b.y0 + b.y1) \div 2) - oy)

\* polygon.centroid, to the centimetre, by inclusion and exclusion
PolygonCentroid(boxes) ==
    LET n  == Len(boxes)
        bb == PolygonBounds(boxes)
        terms == [i \in 1..n |-> <<1, boxes[i]>>]
                 \o (IF n < 2 THEN <<>> ELSE << <<-1, BoxMeet(boxes[1], boxes[2])>> >>)
                 \o (IF n < 3 THEN <<>>
                     ELSE << <<-1, BoxMeet(boxes[1], boxes[3])>>,
                             <<-1, BoxMeet(boxes[2], boxes[3])>>,
                             <<1, BoxMeet(BoxMeet(boxes[1], boxes[2]), boxes[3])>> >>)
        m  == Len(terms)
        a  == SumSeq([i \in 1..m |-> terms[i][1] * (BoxArea(terms[i][2]) \div 1000)])
        mx == SumSeq([i \in 1..m |-> terms[i][1] * BoxMomentX(terms[i][2], bb.x0)])
        my == SumSeq([i \in 1..m |-> terms[i][1] * BoxMomentY(terms[i][2], bb.y0)])
    IN  IF a <= 0 THEN [x |-> (bb.x0 + bb.x1) \div 2, y |-> (bb.y0 + bb.y1) \div 2]
        ELSE [x |-> bb.x0 + (mx \div a), y |-> bb.y0 + (my \div a)]

\* shapely.affinity.scale(polygon, f, f, origin='centroid'); f4 is f * 10^4
ScaleCoord(c, o, f4) == o + (((c - o) * f4) \div 10000)

ScalePolygon(boxes, f4) ==
    Only({[i \in 1..Len(boxes) |->
              box(ScaleCoord(boxes[i].x0, c.x, f), ScaleCoord(boxes[i].y0, c.y, f),
                  ScaleCoord(boxes[i].x1, c.x, f), ScaleCoord(boxes[i].y1, c.y, f))]
             : c \in {PolygonCentroid(boxes)}, f \in {f4}})

(***************************************************************************)
(* Catalogs and regulation config                                          *)
(***************************************************************************)
UnitTemplate(id, bhk, w, d, carpet) ==
    [id |-> id, bhk_type |-> bhk, width |-> w, depth |-> d, carpet_area |-> carpet]

\* a catalog is a dict: a sequence of <<key, template>> in insertion order
DEFAULT_UNIT_TEMPLATES ==
    << <<"1RK",    UnitTemplate("1rk-std",    "1RK",    550,  500, 26)>>,
       <<"1BHK",   UnitTemplate("1bhk-std",   "1BHK",   650,  650, 42)>>,
       <<"1.5BHK", UnitTemplate("1.5bhk-std", "1.5BHK", 700,  700, 52)>>,
       <<"2BHK",   UnitTemplate("2bhk-std",   "2BHK",   850,  750, 65)>>,
       <<"2.5BHK", UnitTemplate("2.5bhk-std", "2.5BHK", 950,  800, 78)>>,
       <<"3BHK",   UnitTemplate("3bhk-std",   "3BHK",   1100, 850, 95)>>,
       <<"4BHK",   UnitTemplate("4bhk-std",   "4BHK",   1300, 950, 130)>> >>

DEFAULT_CORE_TEMPLATES ==
    [medium |-> [id |-> "core-medium", width |-> 500, depth |-> 700,
                 lift_count |-> 2, stair_count |-> 2]]

\* dict operations on a sequence of <<key, value>>
DictHas(d, k) == \E i \in 1..Len(d) : d[i][1] = k
DictGet(d, k) == d[CHOOSE i \in 1..Len(d) : d[i][1] = k][2]
DictValues(d) == [i \in 1..Len(d) |-> d[i][2]]

\* RegulationConstraints with its defaults: max_fsi in tenths, max_coverage in
\* percent, lengths in cm, setbacks as the values of the setbacks dict
RegulationConstraints ==
    [max_fsi10 |-> 25, max_coverage |-> 50, min_corridor_width |-> 180,
     max_unit_depth |-> 1500, min_unit_width |-> 300,
     setbacks |-> <<600, 300, 300, 300>>]

(***************************************************************************)
(* The random source                                                       *)
(***************************************************************************)
\* the generator's next state
RngNext(s) == (5 * s + 3) % RngMod
\* random.choice(seq) in state s
RandomChoice(seq, s) == seq[((s * Len(seq)) \div RngMod) + 1]
\* random.uniform(0.7, 1.0) in state s, times 10^4
RandomUniform(s) == 7000 + ((3000 * s) \div RngMod)

(***************************************************************************)
(* SetbackEngine                                                           *)
(***************************************************************************)
NoPolygon == <<>>

\* Polygon(site_boundary).  A site is the rectangle [0,W] x [0,H] or, when
\* gap > 0, a dumbbell: that rectangle, a second lobe W2 wide at distance gap
\* to its right, and between them a neck `neck` high at mid-height
SitePolygon(site) ==
    IF site.gap = 0 THEN << box(0, 0, site.W, site.H) >>
    ELSE << box(0, 0, site.W, site.H),
            box(site.W, (site.H - site.neck) \div 2, site.W + site.gap,
                ((site.H - site.neck) \div 2) + site.neck),
            box(site.W + site.gap, 0, site.W + site.gap + site.W2, site.H) >>

\* the boxes of a sequence that are not empty
RECURSIVE NonEmpty(_)
NonEmpty(boxes) ==
    IF boxes = <<>> THEN <<>>
    ELSE (IF BoxArea(Head(boxes)) > 0 THEN <<Head(boxes)>> ELSE <<>>) \o NonEmpty(Tail(boxes))

\* self.site_polygon.buffer(-d), as the sequence of its pieces (each a
\* polygon): none when the erosion is empty, one for a Polygon, several for
\* a MultiPolygon.  A neck no higher than 2d is eroded away and leaves the
\* eroded lobes apart (taken as rectangles: the bulge of a few centimetres
\* that faces the mouth of the neck is left out)
Buffered(site, d) ==
    LET lobe1 == box(d, d, site.W - d, site.H - d)
        lobe2 == box(site.W + site.gap + d, d, site.W + site.gap + site.W2 - d, site.H - d)
        neck  == box(site.W - d, ((site.H - site.neck) \div 2) + d, site.W + site.gap + d,
                     ((site.H - site.neck) \div 2) + site.neck - d)
    IN  IF site.gap = 0
        THEN [i \in 1..Len(NonEmpty(<<lobe1>>)) |-> <<lobe1>>]
        ELSE IF BoxArea(neck) > 0 /\ BoxArea(lobe1) > 0 /\ BoxArea(lobe2) > 0
        THEN << <<lobe1, neck, lobe2>> >>
        ELSE [i \in 1..Len(NonEmpty(<<lobe1, lobe2>>)) |-> <<NonEmpty(<<lobe1, lobe2>>)[i]>>]

\* buffered.area
BufferedArea(pieces) == SumSeq([i \in 1..Len(pieces) |-> PolygonArea(pieces[i])])

\* FloorPlateOptimizer._apply_setbacks: buffer(-mean(setbacks)), None when
\* empty or below 100 sqm, else the polygon or, of a MultiPolygon, geoms[0].
\* Which piece the geometry kernel lists first is not specified: `first` is
\* its index among the pieces
apply_setbacks(site, regs, first) ==
    LET avg_setback == SumSeq(regs.setbacks) \div Len(regs.setbacks)
        buffered == Buffered(site, avg_setback)
    IN  IF buffered = <<>> \/ BufferedArea(buffered) < MinArea
        THEN NoPolygon
        ELSE IF Len(buffered) = 1 THEN buffered[1]
        ELSE buffered[first]

\* self.buildable_area = self.buildable_polygon.area if self.buildable_polygon else 0
BuildableArea(polygon) == IF polygon = NoPolygon THEN 0 ELSE PolygonArea(polygon)

(***************************************************************************)
(* ShapeSynthesizer                                                        *)
(***************************************************************************)
\* FloorPlateOptimizer._create_building_shape; returns the envelope and the
\* state of the random source after the two factor draws
create_building_shape(regs, shape, max_width, max_depth, origin_x, origin_y, randomize, s) ==
    LET width_factor == IF randomize THEN RandomUniform(s) ELSE 9000
        s1 == IF randomize THEN RngNext(s) ELSE s
        depth_factor == IF randomize THEN RandomUniform(s1) ELSE 9000
        s2 == IF randomize THEN RngNext(s1) ELSE s1
        width == (max_width * width_factor) \div 10000
        depth == Min2((max_depth * depth_factor) \div 10000,
                      regs.max_unit_depth * 2 + DepthCapCorridor)
        cx == origin_x + (max_width \div 2)
        cy == origin_y + (max_depth \div 2)
        left == cx - (width \div 2)
        right == left + width
        bot == cy - (depth \div 2)
        top == bot + depth
        poly ==
          CASE shape = "linear" -> << box(left, bot, right, top) >>
            [] shape = "l_shape" ->
                 LET wing_width == (width * 4) \div 10
                     wing_depth == (depth * 6) \div 10
                 IN  << box(left, bot, right, top - (wing_depth \div 2)),
                        box(right - wing_width, bot, right, top) >>
            [] shape = "u_shape" ->
                 LET wing_width == (width * 25) \div 100
                 IN  << box(left, bot, left + wing_width, top),
                        box(right - wing_width, bot, right, top),
                        box(left, bot, right, bot + wing_width) >>
    IN  [polygon |-> poly, rng |-> s2]

(***************************************************************************)
(* FloorPlateLayoutEngine                                                  *)
(***************************************************************************)
\* the repetitions without the minimum of one
PoolCountNoMinimum(percent, total_percent) == (percent * 10) \div total_percent

\* max(1, int((percent / total_percent) * 10))
PoolCount(percent, total_percent) == Max2(1, (percent * 10) \div total_percent)

Repeat(x, n) == [i \in 1..n |-> x]

\* the loop that builds templates_to_use from the unit program, a dict given
\* as a sequence of <<bhk_type, percent>>
RECURSIVE TemplatesToUse(_, _, _)
TemplatesToUse(catalog, program, total_percent) ==
    IF program = <<>> THEN <<>>
    ELSE LET bhk_type == Head(program)[1]
             percent  == Head(program)[2]
             rest     == TemplatesToUse(catalog, Tail(program), total_percent)
         IN  IF percent > 0 /\ DictHas(catalog, bhk_type)
             THEN Repeat(DictGet(catalog, bhk_type), PoolCount(percent, total_percent)) \o rest
             ELSE rest

\* the ZeroDivisionError of percent / total_percent
PoolRaises(catalog, program) ==
    /\ SumSeq(DictValues(program)) = 0
    /\ \E i \in 1..Len(program) : program[i][2] > 0 /\ DictHas(catalog, program[i][1])

\* one `while x_pos < origin_x + floor_width - 3` loop of _place_units_*;
\* r holds the loop's invariants, acc the units placed so far
RECURSIVE PackRow(_, _, _, _, _)
PackRow(r, x_pos, unit_id, s, acc) ==
    LET \* units.append(PlacedUnit(...)); x_pos += unit_width + 0.3; unit_id += 1
        Place(template, s1, unit_width, unit_depth) ==
            IF unit_width < r.min_unit_width
            THEN [units |-> acc, unit_id |-> unit_id, rng |-> s1]
            ELSE Only({PackRow(r, next_x, next_id, next_s, units)
                         : next_x \in {x_pos + unit_width + UnitGap},
                           next_id \in {unit_id + 1},
                           next_s \in {s1},
                           units \in {Append(acc,
                               [id |-> unit_id, unit_type_id |-> template.id, x |-> x_pos,
                                y |-> IF r.below THEN r.y - unit_depth ELSE r.y,
                                width |-> unit_width, depth |-> unit_depth, rotation |-> 0,
                                floor |-> 0, has_balcony |-> FALSE,
                                ventilation_sides |-> r.ventilation_sides])}})
        \* unit_width = min(template.width, remaining_width), unit_depth likewise
        Size(template, s1) ==
            Place(template, s1,
                  Min2(template.width, r.origin_x + r.floor_width - x_pos),
                  Min2(template.depth, r.max_unit_depth))
    IN  IF ~(x_pos < r.origin_x + r.floor_width - MinUnitSpan)
        THEN [units |-> acc, unit_id |-> unit_id, rng |-> s]
        ELSE IF x_pos < r.core_right /\ x_pos + MinUnitSpan > r.core_left
        THEN PackRow(r, r.core_right + CoreClearance, unit_id, s, acc)
        ELSE IF r.randomize
        THEN Size(RandomChoice(r.templates, s), RngNext(s))
        ELSE Size(r.templates[(unit_id % Len(r.templates)) + 1], s)

\* a row loop that never tests the clipped width
RowOfNoMinWidth(regs, origin_x, floor_width, core, templates, randomize, max_unit_depth, y, below, ventilation_sides) ==
    [origin_x |-> origin_x, floor_width |-> floor_width,
     core_left |-> core.x, core_right |-> core.x + core.width,
     templates |-> templates, randomize |-> randomize,
     min_unit_width |-> 0, max_unit_depth |-> max_unit_depth,
     y |-> y, below |-> below, ventilation_sides |-> ventilation_sides]

\* the invariants of a row loop
RowOf(regs, origin_x, floor_width, core, templates, randomize, max_unit_depth, y, below, ventilation_sides) ==
    [origin_x |-> origin_x, floor_width |-> floor_width,
     core_left |-> core.x, core_right |-> core.x + core.width,
     templates |-> templates, randomize |-> randomize,
     min_unit_width |-> regs.min_unit_width, max_unit_depth |-> max_unit_depth,
     y |-> y, below |-> below, ventilation_sides |-> ventilation_sides]

\* the top row alone
place_units_double_loaded_top_row(regs, origin_x, origin_y, floor_width, floor_depth, corridor, core, templates, randomize, s) ==
    LET Return(top) == [units |-> top.units, rng |-> top.rng]
    IN  Only({Return(PackRow(row, origin_x, 0, s, <<>>))
                : row \in {RowOf(regs, origin_x, floor_width, core, templates, randomize,
                                 Min2(regs.max_unit_depth,
                                      Min2(origin_y + floor_depth - (corridor.y + corridor.depth),
                                           corridor.y - origin_y)),
                                 corridor.y + corridor.depth, FALSE, <<"N">>)}})

\* FloorPlateOptimizer._place_units_double_loaded
place_units_double_loaded(regs, origin_x, origin_y, floor_width, floor_depth, corridor, core, templates, randomize, s) ==
    LET Return(bottom) == [units |-> bottom.units, rng |-> bottom.rng]
        \* the bottom row (south side of the corridor) continues ids and units
        Bottom(max_unit_depth, top) ==
            Only({Return(PackRow(row, origin_x, top.unit_id, top.rng, top.units))
                    : row \in {RowOf(regs, origin_x, floor_width, core, templates, randomize,
                                     max_unit_depth, corridor.y, TRUE, <<"S">>)}})
        \* the top row (north side of the corridor)
        Top(max_unit_depth) ==
            Only({Bottom(max_unit_depth, top)
                    : top \in {Only({PackRow(row, origin_x, 0, s, <<>>)
                         : row \in {RowOf(regs, origin_x, floor_width, core, templates,
                                          randomize, max_unit_depth,
                                          corridor.y + corridor.depth, FALSE, <<"N">>)}})}})
    IN  Only({Top(max_unit_depth)
                : max_unit_depth \in {Min2(regs.max_unit_depth,
                                          Min2(origin_y + floor_depth - (corridor.y + corridor.depth),
                                               corridor.y - origin_y))}})

\* FloorPlateOptimizer._place_units_single_loaded
place_units_single_loaded(regs, origin_x, origin_y, floor_width, floor_depth, corridor, core, templates, randomize, s) ==
    LET Return(only) == [units |-> only.units, rng |-> only.rng]
    IN  Only({Return(PackRow(row, origin_x, 0, s, <<>>))
                : row \in {RowOf(regs, origin_x, floor_width, core, templates, randomize,
                                 Min2(regs.max_unit_depth, corridor.y - origin_y),
                                 origin_y, FALSE, <<"S", "E", "W">>)}})

\* sum(u.width * u.depth for u in units)
RECURSIVE UnitArea(_)
UnitArea(units) ==
    IF units = <<>> THEN 0
    ELSE Head(units).width * Head(units).depth + UnitArea(Tail(units))

\* efficiency = usable_area / total_area if total_area > 0 else 0, times 10^4
Efficiency(usable_area, total_area) ==
    IF total_area > 0 THEN ScaledDiv(usable_area, total_area, 4) ELSE 0

\* FloorPlateOptimizer._generate_floor_plate: the plate as a value (its units,
\* core and corridor are given their object identity by the caller)
generate_floor_plate(regs, catalog, building_polygon, corridor_type, unit_program, randomize, s) ==
    LET corridor_width == regs.min_corridor_width
        core_template == DEFAULT_CORE_TEMPLATES.medium
        \* return FloorPlateResult(...)
        Return(core, corridor, placed, total_area, usable_area) ==
            [raises |-> FALSE, rng |-> placed.rng, floor_number |-> 0,
             units |-> placed.units, cores |-> <<core>>, corridors |-> <<corridor>>,
             boundary_polygon |-> building_polygon,
             total_area |-> total_area, usable_area |-> usable_area,
             efficiency |-> Efficiency(usable_area, total_area)]
        \* total_area = building_polygon.area; usable_area = sum(...)
        Areas(core, corridor, placed) ==
            Only({Return(core, corridor, placed, total_area, usable_area)
                    : total_area \in {PolygonArea(building_polygon)},
                      usable_area \in {UnitArea(placed.units)}})
        \* units = self._place_units_*_loaded(...)
        Place(minx, miny, floor_width, floor_depth, templates_to_use, core, corridor) ==
            Only({Areas(core, corridor, placed)
                    : placed \in {IF corridor_type = "double"
                                  THEN place_units_double_loaded(regs, minx, miny, floor_width,
                                           floor_depth, corridor, core, templates_to_use,
                                           randomize, s)
                                  ELSE place_units_single_loaded(regs, minx, miny, floor_width,
                                           floor_depth, corridor, core, templates_to_use,
                                           randomize, s)}})
        \* the core at the centre of the bounding box, the corridor along the x axis
        Elements(minx, miny, floor_width, floor_depth, templates_to_use) ==
            Only({Place(minx, miny, floor_width, floor_depth, templates_to_use, core, corridor)
                    : core \in {[id |-> "core-1",
                                 x |-> minx + (floor_width \div 2) - (core_template.width \div 2),
                                 y |-> miny + (floor_depth \div 2) - (core_template.depth \div 2),
                                 width |-> core_template.width, depth |-> core_template.depth,
                                 lift_count |-> core_template.lift_count,
                                 stair_count |-> core_template.stair_count]},
                      corridor \in {[x |-> minx,
                                     y |-> IF corridor_type = "double"
                                           THEN miny + (floor_depth \div 2) - (corridor_width \div 2)
                                           ELSE miny + floor_depth - corridor_width,
                                     width |-> floor_width, depth |-> corridor_width,
                                     corridor_type |-> corridor_type]}})
        \* templates_to_use, with the fallback [self.unit_templates["2BHK"]]
        Pool(b, weighted) ==
            IF \/ PoolRaises(catalog, unit_program)
               \/ (weighted = <<>> /\ ~DictHas(catalog, "2BHK"))
            THEN [raises |-> TRUE, rng |-> s]
            ELSE Only({Elements(b.x0, b.y0, floor_width, floor_depth, templates_to_use)
                         : floor_width \in {b.x1 - b.x0},
                           floor_depth \in {b.y1 - b.y0},
                           templates_to_use \in {IF weighted = <<>>
                                                 THEN << DictGet(catalog, "2BHK") >>
                                                 ELSE weighted}})
    IN  Only({Pool(b, weighted)
                : b \in {PolygonBounds(building_polygon)},
                  weighted \in {IF PoolRaises(catalog, unit_program) THEN <<>>
                                ELSE TemplatesToUse(catalog, unit_program,
                                                    SumSeq(DictValues(unit_program)))}})

(***************************************************************************)
(* VariantScorer                                                           *)
(***************************************************************************)
\* every unit taken for a 2BHK
get_bhk_always_default(catalog, unit_type_id) == "2BHK"

\* FloorPlateOptimizer._get_bhk_from_unit_id
get_bhk_from_unit_id(catalog, unit_type_id) ==
    IF \E i \in 1..Len(catalog) : catalog[i][2].id = unit_type_id
    THEN catalog[CHOOSE i \in 1..Len(catalog) :
                    /\ catalog[i][2].id = unit_type_id
                    /\ \A j \in 1..(i - 1) : catalog[j][2].id # unit_type_id][1]
    ELSE "2BHK"

\* unit_mix.get(bhk, 0)
MixGet(mix, bhk) == IF DictHas(mix, bhk) THEN DictGet(mix, bhk) ELSE 0

\* unit_mix[bhk] = unit_mix.get(bhk, 0) + n
MixAdd(mix, bhk, n) ==
    IF DictHas(mix, bhk)
    THEN [i \in 1..Len(mix) |-> IF mix[i][1] = bhk THEN <<bhk, mix[i][2] + n>> ELSE mix[i]]
    ELSE Append(mix, <<bhk, n>>)

\* the mix_error loop: percentages carry two decimals
RECURSIVE MixError(_, _, _, _)
MixError(target_mix, unit_mix, total_target, total_actual) ==
    IF target_mix = <<>> THEN 0
    ELSE LET bhk == Head(target_mix)[1]
             target_pct == Head(target_mix)[2]
             actual_pct == ScaledDiv(MixGet(unit_mix, bhk) * 100, total_actual, 2)
             target_normalized == ScaledDiv(target_pct * 100, total_target, 2)
         IN  Abs(actual_pct - target_normalized)
             + MixError(Tail(target_mix), unit_mix, total_target, total_actual)

\* the score without its cap
calculate_variant_score_uncapped(regs, total_units, fsi4, coverage6, efficiency4, unit_mix, target_mix) ==
    [raises |-> FALSE,
     score |-> Min2(30000, total_units * 500)
               + ((Min2(10000, (fsi4 * 10) \div regs.max_fsi10) * 25) \div 10)
               + ((Min2(10000, ScaledDiv(coverage6, regs.max_coverage * 10000, 4)) * 15) \div 10)
               + efficiency4 * 2
               + (IF target_mix # <<>> /\ SumSeq(DictValues(target_mix)) > 0
                     /\ SumSeq(DictValues(unit_mix)) > 0
                  THEN Max2(0, 10000 - MixError(target_mix, unit_mix,
                                                SumSeq(DictValues(target_mix)),
                                                SumSeq(DictValues(unit_mix))))
                  ELSE 0)]

\* FloorPlateOptimizer._calculate_variant_score, in thousandths of a point.
\* fsi4 and efficiency4 carry four decimals, coverage6 six.
calculate_variant_score(regs, total_units, fsi4, coverage6, efficiency4, unit_mix, target_mix) ==
    LET unit_score == Min2(30000, total_units * 500)
        fsi_utilization == Min2(10000, (fsi4 * 10) \div regs.max_fsi10)
        coverage_score == (Min2(10000, ScaledDiv(coverage6, regs.max_coverage * 10000, 4)) * 15) \div 10
        total_target == SumSeq(DictValues(target_mix))
        total_actual == SumSeq(DictValues(unit_mix))
        mix_score == IF target_mix # <<>> /\ total_target > 0 /\ total_actual > 0
                     THEN Max2(0, 10000 - MixError(target_mix, unit_mix, total_target, total_actual))
                     ELSE 0
        score == unit_score + ((fsi_utilization * 25) \div 10) + coverage_score
                 + efficiency4 * 2 + mix_score
    IN  IF regs.max_fsi10 = 0 \/ regs.max_coverage = 0
        THEN [raises |-> TRUE]
        ELSE [raises |-> FALSE, score |-> Min2(100000, score)]

(***************************************************************************)
(* Objects: the heap.  A constructor is given the address `base` after     *)
(* which its new objects are stored and returns them as `objs`.            *)
(***************************************************************************)
ListObj(items) == [kind |-> "list", items |-> items]

\* PlacedUnit(...): a unit object whose ventilation_sides is the list at vent
UnitObj(u, vent) ==
    [kind |-> "PlacedUnit", id |-> u.id, unit_type_id |-> u.unit_type_id,
     x |-> u.x, y |-> u.y, width |-> u.width, depth |-> u.depth,
     rotation |-> u.rotation, floor |-> u.floor, has_balcony |-> u.has_balcony,
     ventilation_sides |-> vent]

\* the units a row loop creates: unit k is stored at base + 2k, after its own
\* ventilation list at base + 2k - 1
AllocUnits(base, units) ==
    [objs |-> [j \in 1..(2 * Len(units)) |->
                 IF j % 2 = 1 THEN ListObj(units[(j + 1) \div 2].ventilation_sides)
                 ELSE UnitObj(units[j \div 2], base + j - 1)],
     addrs |-> [k \in 1..Len(units) |-> base + 2 * k]]

\* the objects of the FloorPlateResult that _generate_floor_plate returns
AllocFloorPlate(h, plate) ==
    LET Alloc(us, b) ==
        [heap |-> h \o us.objs
                  \o << ListObj(us.addrs),
                        [kind |-> "PlacedCore"] @@ plate.cores[1],
                        ListObj(<<b + 2>>),
                        [kind |-> "Corridor"] @@ plate.corridors[1],
                        ListObj(<<b + 4>>),
                        ListObj(plate.boundary_polygon) >>,
         plate |-> [floor_number |-> plate.floor_number, units |-> b + 1,
                    cores |-> b + 3, corridors |-> b + 5,
                    boundary_polygon |-> b + 6, total_area |-> plate.total_area,
                    usable_area |-> plate.usable_area, efficiency |-> plate.efficiency]]
    IN  Only({Alloc(us, Len(h) + Len(us.objs)) : us \in {AllocUnits(Len(h), plate.units)}})

(***************************************************************************)
(* FloorReplicator                                                         *)
(***************************************************************************)
\* new units that keep the floor plate's ventilation_sides lists (no .copy())
FloorUnitsSharedVentilation(h, plate, floor_num, base) ==
    [objs |-> [j \in 1..Len(h[plate.units].items) |->
                 [h[h[plate.units].items[j]] EXCEPT !.floor = floor_num]]
              \o << ListObj([k \in 1..Len(h[plate.units].items) |-> base + k]) >>,
     addr |-> base + Len(h[plate.units].items) + 1]

\* floor_units = [PlacedUnit(id=u.id, ..., floor=floor_num,
\*                ventilation_sides=u.ventilation_sides.copy()) for u in floor_plate.units]
\* : for each unit a new list and a new unit, then the new list of units
FloorUnits(h, plate, floor_num, base) ==
    LET uas == h[plate.units].items
        n == Len(uas)
    IN  [objs |-> [j \in 1..(2 * n) |->
                     IF j % 2 = 1
                     THEN ListObj(h[h[uas[(j + 1) \div 2]].ventilation_sides].items)
                     ELSE UnitObj([h[uas[j \div 2]] EXCEPT !.floor = floor_num], base + j - 1)]
                  \o << ListObj([k \in 1..n |-> base + 2 * k]) >>,
         addr |-> base + 2 * n + 1]

\* floor_copy = FloorPlateResult(floor_number=floor_num, units=floor_units,
\*     cores=floor_plate.cores.copy(), corridors=floor_plate.corridors.copy(),
\*     boundary_polygon=floor_plate.boundary_polygon, ...)
FloorCopy(h, plate, floor_num, base) ==
    LET Copy(us, b) ==
            [objs |-> us.objs \o << ListObj(h[plate.cores].items),
                                    ListObj(h[plate.corridors].items) >>,
             floor |-> [floor_number |-> floor_num, units |-> us.addr, cores |-> b + 1,
                        corridors |-> b + 2, boundary_polygon |-> plate.boundary_polygon,
                        total_area |-> plate.total_area, usable_area |-> plate.usable_area,
                        efficiency |-> plate.efficiency]]
    IN  Only({Copy(us, base + Len(us.objs)) : us \in {FloorUnits(h, plate, floor_num, base)}})

\* for floor_num in range(start_floor, start_floor + count): floors.append(floor_copy)
\* ; every floor stores the same number of new objects
ReplicateRange(h, plate, start_floor, count) ==
    LET Floors(m, copies) ==
            [heap |-> h \o [j \in 1..(count * m) |-> copies[((j - 1) \div m) + 1].objs[((j - 1) % m) + 1]],
             floors |-> [k \in 1..count |-> copies[k].floor]]
        Copies(m) ==
            Only({Floors(m, copies)
                    : copies \in {[k \in 1..count |->
                                     FloorCopy(h, plate, start_floor + k - 1,
                                               Len(h) + (k - 1) * m)]}})
    IN  Only({Copies(m) : m \in {Len(FloorCopy(h, plate, start_floor, Len(h)).objs)}})

\* a loop over range(start_floor, num_floors)
replicate_floors_below_count(h, plate, num_floors, stilt_parking) ==
    ReplicateRange(h, plate, IF stilt_parking THEN 1 ELSE 0,
                   num_floors - (IF stilt_parking THEN 1 ELSE 0))

\* the floors numbered from 0 whatever stilt_parking
replicate_floors_from_zero(h, plate, num_floors, stilt_parking) ==
    ReplicateRange(h, plate, 0, num_floors)

\* start_floor = 1 if stilt_parking else 0, and the replication loop
replicate_floors(h, plate, num_floors, stilt_parking) ==
    ReplicateRange(h, plate, IF stilt_parking THEN 1 ELSE 0, num_floors)

(***************************************************************************)
(* VariantGenerator: one generation attempt                                *)
(***************************************************************************)
\* coverage = building_polygon.area / self.site_area, with six decimals
Coverage(area, site_area) == ScaledDiv(area, site_area, 6)

\* np.sqrt(self.regulations.max_coverage / coverage) * 0.95, times 10^4
ScaleFactor(regs, coverage6) ==
    (Isqrt(ScaledDiv(regs.max_coverage * 10000, coverage6, 6) * 100) * 95) \div 100

\* the envelope left as synthesized
FitCoverageUnscaled(regs, building_polygon, site_area) == building_polygon

\* if coverage > max_coverage: building_polygon = scale(building_polygon, ...)
FitCoverage(regs, building_polygon, site_area) ==
    LET coverage == Coverage(PolygonArea(building_polygon), site_area)
    IN  IF coverage > regs.max_coverage * 10000
        THEN ScalePolygon(building_polygon, ScaleFactor(regs, coverage))
        ELSE building_polygon

\* the unit_mix loop over floor_plate.units
RECURSIVE UnitMix(_, _, _, _)
UnitMix(catalog, units, num_floors, mix) ==
    IF units = <<>> THEN mix
    ELSE Only({UnitMix(catalog, Tail(units), num_floors, added)
                 : added \in {MixAdd(mix, get_bhk_from_unit_id(catalog, Head(units).unit_type_id),
                                     num_floors)}})

\* sum(self.unit_templates.get(bhk, DEFAULT_UNIT_TEMPLATES["2BHK"]).carpet_area ...)
RECURSIVE CarpetArea(_, _)
CarpetArea(catalog, units) ==
    IF units = <<>> THEN 0
    ELSE LET bhk == get_bhk_from_unit_id(catalog, Head(units).unit_type_id)
             t == IF DictHas(catalog, bhk) THEN DictGet(catalog, bhk)
                  ELSE DictGet(DEFAULT_UNIT_TEMPLATES, "2BHK")
         IN  t.carpet_area + CarpetArea(catalog, Tail(units))

\* FloorPlateOptimizer._generate_single_variant.  outcome is "ok" (a variant),
\* "none" (return None) or "raise" (an exception leaves the method); heap and
\* rng are the heap and the random source afterwards.
generate_single_variant(cfg, buildable_polygon, h, s, variant_id, shape, corridor_type, randomize) ==
    LET regs == cfg.regulations
        site_area == PolygonArea(SitePolygon(cfg.site))
        floors_built == cfg.num_floors + (IF cfg.stilt_parking THEN 1 ELSE 0)
        \* return LayoutVariant(...), unless the scorer raised
        Return(plate, rep, total_units, unit_mix, total_built_up, total_carpet, fsi_achieved, ground_coverage, scored) ==
            IF scored.raises
            THEN [outcome |-> "raise", heap |-> h, rng |-> plate.rng]
            ELSE [outcome |-> "ok", heap |-> rep.heap, rng |-> plate.rng,
                  variant |-> [id |-> variant_id,
                               name |-> [option |-> 0, label |-> shape],
                               shape |-> shape, corridor_type |-> corridor_type,
                               floors |-> rep.floors, total_units |-> total_units,
                               unit_mix |-> unit_mix,
                               total_built_up_area |-> total_built_up,
                               total_carpet_area |-> total_carpet,
                               fsi_achieved |-> fsi_achieved,
                               ground_coverage |-> ground_coverage,
                               score |-> scored.score]]
        \* fsi_achieved, ground_coverage, then score = self._calculate_variant_score(...)
        Score(building_polygon, plate, rep, total_units, unit_mix, total_built_up, total_carpet) ==
            Only({Only({Return(plate, rep, total_units, unit_mix, total_built_up, total_carpet,
                               fsi_achieved, ground_coverage, scored)
                          : scored \in {calculate_variant_score(regs, total_units, fsi_achieved,
                                            ground_coverage, plate.efficiency, unit_mix,
                                            cfg.unit_program)}})
                    : fsi_achieved \in {ScaledDiv(total_built_up, site_area, 4)},
                      ground_coverage \in {Coverage(PolygonArea(building_polygon), site_area)}})
        \* the totals over the floors
        Metrics(building_polygon, plate, rep) ==
            Only({Score(building_polygon, plate, rep, total_units, unit_mix, total_built_up,
                        total_carpet)
                    : total_units \in {Len(plate.units) * cfg.num_floors},
                      unit_mix \in {UnitMix(cfg.unit_templates, plate.units, cfg.num_floors, <<>>)},
                      total_built_up \in {plate.total_area * floors_built},
                      total_carpet \in {CarpetArea(cfg.unit_templates, plate.units)
                                           * cfg.num_floors}})
        \* the replication loop over the floor plate's objects
        Replicate(building_polygon, plate) ==
            Only({Metrics(building_polygon, plate, rep)
                    : rep \in {Only({replicate_floors(placed.heap, placed.plate, cfg.num_floors,
                                                      cfg.stilt_parking)
                                       : placed \in {AllocFloorPlate(h, plate)}})}})
        \* if not floor_plate.units: return None
        Placed(building_polygon, plate) ==
            IF plate.raises
            THEN [outcome |-> "raise", heap |-> h, rng |-> plate.rng]
            ELSE IF Len(plate.units) = 0
            THEN [outcome |-> "none", heap |-> h, rng |-> plate.rng]
            ELSE Replicate(building_polygon, plate)
        \* floor_plate = self._generate_floor_plate(building_polygon, ...)
        Layout(made, building_polygon) ==
            Only({Placed(building_polygon, plate)
                    : plate \in {generate_floor_plate(regs, cfg.unit_templates, building_polygon,
                                     corridor_type, cfg.unit_program, randomize, made.rng)}})
        \* if building_polygon is None or building_polygon.area < 100: return None
        Fit(made) ==
            IF PolygonArea(made.polygon) < MinArea
            THEN [outcome |-> "none", heap |-> h, rng |-> made.rng]
            ELSE Only({Layout(made, building_polygon)
                         : building_polygon \in {FitCoverage(regs, made.polygon, site_area)}})
        \* minx, miny, maxx, maxy = self.buildable_polygon.bounds
        Shape(bb) ==
            Only({Fit(made)
                    : made \in {create_building_shape(regs, shape, bb.x1 - bb.x0,
                                    bb.y1 - bb.y0, bb.x0, bb.y0, randomize, s)}})
    IN  IF buildable_polygon = NoPolygon
        THEN [outcome |-> "raise", heap |-> h, rng |-> s]
        ELSE Only({Shape(bb) : bb \in {PolygonBounds(buildable_polygon)}})

(***************************************************************************)
(* VariantGenerator: ranking                                               *)
(***************************************************************************)
\* v placed after every element of the sorted sequence whose score is >= its own
RECURSIVE InsertByScore(_, _)
InsertByScore(sorted, v) ==
    IF sorted = <<>> THEN <<v>>
    ELSE IF Head(sorted).score >= v.score
    THEN <<Head(sorted)>> \o InsertByScore(Tail(sorted), v)
    ELSE <<v>> \o sorted

\* the list left in the order of collection
SortByScoreSkipped(vs, sorted) == sorted \o vs

\* variants.sort(key=lambda v: v.score, reverse=True): stable, best first
RECURSIVE SortByScore(_, _)
SortByScore(vs, sorted) ==
    IF vs = <<>> THEN sorted
    ELSE Only({SortByScore(Tail(vs), inserted) : inserted \in {InsertByScore(sorted, Head(vs))}})

\* v.shape.value.replace('_', ' ').title()
ShapeTitle(shape) ==
    CASE shape = "linear" -> "Linear"
      [] shape = "l_shape" -> "L Shape"
      [] shape = "u_shape" -> "U Shape"

\* v.name = f"Option {chr(65 + i)}: {title}", the letter given as its index i
AssignNames(vs) ==
    [i \in 1..Len(vs) |->
        [vs[i] EXCEPT !.name = [option |-> i - 1, label |-> ShapeTitle(vs[i].shape)]]]

(***************************************************************************)
(* Inputs                                                                  *)
(***************************************************************************)
UniformSetbacks(d) == <<d, d, d, d>>

Only3BHK == << <<"3BHK", DictGet(DEFAULT_UNIT_TEMPLATES, "3BHK")>> >>

Request(W, H, setbacks, catalog, program, floors, variants, stilt) ==
    [site |-> [W |-> W, H |-> H, gap |-> 0, neck |-> 0, W2 |-> 0],
     regulations |-> [RegulationConstraints EXCEPT !.setbacks = setbacks],
     unit_templates |-> catalog, unit_program |-> program,
     num_floors |-> floors, num_variants |-> variants, stilt_parking |-> stilt]

\* 40 m x 30 m, uniform 3 m setback, {2BHK: 60, 1BHK: 40}
ScenarioA(floors, variants, stilt) ==
    Request(4000, 3000, UniformSetbacks(300), DEFAULT_UNIT_TEMPLATES,
            << <<"2BHK", 60>>, <<"1BHK", 40>> >>, floors, variants, stilt)

\* a catalog holding only the 3BHK template, on 40 m x 30 m with the default setbacks
CatalogWithout2BHK(program, variants) ==
    Request(4000, 3000, RegulationConstraints.setbacks, Only3BHK, program, 2, variants, TRUE)

\* a dumbbell site with 3 m setbacks: lobes W and W2 wide and H high, 10 m
\* apart, joined by a neck `neck` high
Dumbbell(W, W2, H, neck) ==
    [Request(W, H, UniformSetbacks(300), DEFAULT_UNIT_TEMPLATES,
             << <<"2BHK", 60>>, <<"1BHK", 40>> >>, 1, 1, FALSE)
        EXCEPT !.site = [W |-> W, H |-> H, gap |-> 1000, neck |-> neck, W2 |-> W2]]

\* a site with uniform 3 m setbacks and a minimum unit width of its own
MinWidthRequest(W, H, min_unit_width, program, variants) ==
    [Request(W, H, UniformSetbacks(300), DEFAULT_UNIT_TEMPLATES, program, 1, variants, FALSE)
        EXCEPT !.regulations.min_unit_width = min_unit_width]

\* the requests explored: sites in cm, programs as <<bhk_type, percent>>
Requests ==
    \* dumbbells: a 1 m neck the setback erodes away (two pieces of 24 m x 24 m
    \* and 19 m x 24 m, or of 4 m x 4 m each), and a 10 m neck that survives
    { Dumbbell(3000, 2500, 3000, 100), Dumbbell(1000, 1000, 1000, 100),
      Dumbbell(3000, 2500, 3000, 1000) }
    \cup
    { ScenarioA(f, n, st) : f \in {1, 2}, n \in {1, 2, 7}, st \in BOOLEAN }
    \cup
    \* ten floors over stilt parking
    { ScenarioA(10, 1, TRUE) }
    \cup
    \* 80 sqm site, 6 m setback on all sides: nothing buildable
    { Request(1000, 800, UniformSetbacks(600), DEFAULT_UNIT_TEMPLATES, prog, f, n, st)
        : prog \in { <<>>, << <<"2BHK", 100>> >> }, f \in {1, 2}, n \in {1, 7}, st \in BOOLEAN }
    \cup
    \* 18 m x 40 m with the default setbacks: buildable but too narrow for a unit
    { Request(1800, 4000, RegulationConstraints.setbacks, DEFAULT_UNIT_TEMPLATES,
              << <<"2BHK", 100>> >>, 1, n, TRUE) : n \in {1, 2} }
    \cup
    \* 23 m x 20 m with the default setbacks: envelopes near the 100 sqm threshold
    { Request(2300, 2000, RegulationConstraints.setbacks, DEFAULT_UNIT_TEMPLATES,
              prog, f, n, FALSE)
        : prog \in { <<>>, << <<"1BHK", 50>>, <<"1RK", 50>> >> }, f \in {1, 2}, n \in {2, 7} }
    \cup
    \* 40 m x 30 m with the default setbacks, large units only
    { Request(4000, 3000, RegulationConstraints.setbacks, DEFAULT_UNIT_TEMPLATES,
              << <<"4BHK", 100>> >>, f, 6, TRUE) : f \in {1, 2} }
    \cup
    \* a 140 m x 8.5 m strip: the envelope is shallower than the corridor
    { Request(14000, 850, RegulationConstraints.setbacks, DEFAULT_UNIT_TEMPLATES,
              << <<"4BHK", 100>> >>, 1, n, FALSE) : n \in {1, 2} }
    \cup
    { CatalogWithout2BHK(prog, n)
        : prog \in { << <<"3BHK", 100>> >>, << <<"1BHK", 100>> >> }, n \in {2, 7} }
    \cup
    \* a shallow 41 m x 11.8 m site: the L-shaped envelope is below 100 sqm, the
    \* linear and U-shaped ones are not
    { Request(4100, 1180, RegulationConstraints.setbacks, DEFAULT_UNIT_TEMPLATES,
              << <<"2BHK", 60>>, <<"1BHK", 40>> >>, 1, n, FALSE) : n \in {3, 7} }
    \cup
    \* 70 m x 60 m with a minimum unit width between or above the pool's widths
    \* (2BHK 8.5 m, 1BHK 6.5 m): a row stops at the first template too narrow
    { MinWidthRequest(7000, 6000, w, << <<"2BHK", 60>>, <<"1BHK", 40>> >>, n)
        : w \in {700, 850}, n \in {1, 7} }
    \cup
    \* Scenario A's site with a type requested at under a tenth of the program,
    \* and with a negative percentage
    { Request(4000, 3000, UniformSetbacks(300), DEFAULT_UNIT_TEMPLATES, prog, 1, 1, FALSE)
        : prog \in { << <<"1BHK", 5>>, <<"2BHK", 95>> >>,
                     << <<"2BHK", 100>>, <<"1BHK", -50>> >> } }
    \cup
    \* 17.9 m x 11.9 m without setbacks: envelopes of over 100 sqm that exceed
    \* the coverage limit
    { Request(1790, 1190, UniformSetbacks(0), DEFAULT_UNIT_TEMPLATES,
              << <<"2BHK", 60>>, <<"1BHK", 40>> >>, 1, n, FALSE) : n \in {2, 7} }

\* the requests whose results the client goes on to edit
EditRequests ==
    { ScenarioA(2, 2, TRUE), CatalogWithout2BHK(<< <<"1BHK", 100>> >>, 2) }

(***************************************************************************)
(* State                                                                   *)
(***************************************************************************)
VARIABLES
    cfg,                \* the request and the optimizer's configuration
    buildable_polygon,  \* self.buildable_polygon
    pc,                 \* INIT, TEMPLATE_SWEEP, RANDOM_FALLBACK, RANKED, RETURNED
    shape_i,            \* position of `for shape in shapes_to_try`
    corridor_i,         \* position of `for corridor_type in corridor_types`
    variant_id,         \* the sweep's counter of collected variants
    variants,           \* the list `variants`, then the returned list
    heap,               \* the objects the variants refer to
    rng,                \* state of the random source
    sweep_log,          \* the <<shape, corridor_type>> pairs the sweep attempted
    fallback_draw,      \* the fallback loop's last <<shape, corridor>> draw
    edits,              \* number of client edits of the returned result
    last_edit,          \* kind, variant index and floor index of the last edit
    earlier,            \* seed and result of an earlier run of the same request
    parked,             \* the process's other request, while this one runs
    call                \* a direct call of one method: its arguments and result

\* what is outside the run of one request
aside == <<earlier, parked, call>>

vars == <<cfg, buildable_polygon, pc, shape_i, corridor_i, variant_id, variants,
          heap, rng, sweep_log, fallback_draw, edits, last_edit, aside>>

\* the shapes in the opposite order
shapes_to_try_reversed == <<"u_shape", "l_shape", "linear">>

shapes_to_try == <<"linear", "l_shape", "u_shape">>
corridor_types == <<"double", "single">>

NoDraw == <<>>

NoEdit == [kind |-> "none", v |-> 0, f |-> 0]

NoRun == [run |-> 0]

NoRequest == [pc |-> "NONE"]

NoCall == [fn |-> "none"]

\* FloorPlateOptimizer.__init__, before generate_variants is called
InitRun ==
    /\ cfg \in Requests
    /\ buildable_polygon \in {apply_setbacks(cfg.site, cfg.regulations, first) : first \in 1..2}
    /\ pc = "INIT"
    /\ shape_i = 1
    /\ corridor_i = 1
    /\ variant_id = 0
    /\ variants = <<>>
    /\ heap = <<>>
    /\ rng \in 0..(RngMod - 1)
    /\ sweep_log = <<>>
    /\ fallback_draw = NoDraw
    /\ edits = 0
    /\ last_edit = NoEdit

\* one request, run once
Init ==
    /\ InitRun
    /\ earlier = NoRun
    /\ parked = NoRequest
    /\ call = NoCall

(***************************************************************************)
(* generate_variants                                                       *)
(***************************************************************************)
\* a guard that never takes the early return
NoBuildableAreaNever(polygon) == FALSE

\* `if not self.buildable_polygon`
NoBuildableArea(polygon) == polygon = NoPolygon

\* the break taken one variant late
SweepFullOneLate(id, num_variants) == id > num_variants

\* `if variant_id >= num_variants: break`
SweepFull(id, num_variants) == id >= num_variants

\* `while len(variants) < num_variants`
FallbackNeeded(vs, num_variants) == Len(vs) < num_variants

\* `if variant and variant.total_units > 0`
Collected(r) == r.outcome = "ok" /\ r.variant.total_units > 0

\* the guard at the top: return [] or enter the sweep
Start ==
    /\ pc = "INIT"
    /\ pc' = IF NoBuildableArea(buildable_polygon) THEN "RETURNED" ELSE "TEMPLATE_SWEEP"
    /\ UNCHANGED <<cfg, buildable_polygon, shape_i, corridor_i, variant_id, variants,
                   heap, rng, sweep_log, fallback_draw, edits, last_edit, aside>>

\* every attempt randomized
RandomizeAlways == TRUE

\* `randomize: bool = False`, the default the sweep's attempts are made with
RandomizeDefault == FALSE

\* the sweep given up at the first pair that fails
SweepAbortsOnFailure(r) == IF Collected(r) THEN "TEMPLATE_SWEEP" ELSE "RANDOM_FALLBACK"

\* `except Exception as e: logger.warning(...)`, and the fall through after a
\* None or zero-unit result: the loops go on
SweepAfterAttempt(r) == "TEMPLATE_SWEEP"

\* one iteration of the inner sweep loop that makes an attempt
SweepAttempt ==
    /\ pc = "TEMPLATE_SWEEP"
    /\ shape_i <= Len(shapes_to_try)
    /\ ~SweepFull(variant_id, cfg.num_variants)
    /\ \E r \in {generate_single_variant(cfg, buildable_polygon, heap, rng, variant_id + 1,
                                          shapes_to_try[shape_i], corridor_types[corridor_i],
                                          RandomizeDefault)} :
           /\ sweep_log' = Append(sweep_log, <<shapes_to_try[shape_i], corridor_types[corridor_i]>>)
           /\ variants' = IF Collected(r) THEN Append(variants, r.variant) ELSE variants
           /\ variant_id' = IF Collected(r) THEN variant_id + 1 ELSE variant_id
           /\ heap' = IF Collected(r) THEN r.heap ELSE heap
           /\ rng' = r.rng
           /\ pc' = SweepAfterAttempt(r)
    /\ corridor_i' = IF corridor_i < Len(corridor_types) THEN corridor_i + 1 ELSE 1
    /\ shape_i' = IF corridor_i < Len(corridor_types) THEN shape_i ELSE shape_i + 1
    /\ UNCHANGED <<cfg, buildable_polygon, fallback_draw, edits, last_edit, aside>>

\* `break` out of the inner loop: on to the next shape
SweepBreak ==
    /\ pc = "TEMPLATE_SWEEP"
    /\ shape_i <= Len(shapes_to_try)
    /\ SweepFull(variant_id, cfg.num_variants)
    /\ shape_i' = shape_i + 1
    /\ corridor_i' = 1
    /\ UNCHANGED <<cfg, buildable_polygon, pc, variant_id, variants, heap, rng,
                   sweep_log, fallback_draw, edits, last_edit, aside>>

\* the outer loop is exhausted
SweepDone ==
    /\ pc = "TEMPLATE_SWEEP"
    /\ shape_i > Len(shapes_to_try)
    /\ pc' = "RANDOM_FALLBACK"
    /\ UNCHANGED <<cfg, buildable_polygon, shape_i, corridor_i, variant_id, variants,
                   heap, rng, sweep_log, fallback_draw, edits, last_edit, aside>>

\* an exception that is logged and the loop continued
FallbackContinuesAfterRaise(r) == "RANDOM_FALLBACK"

\* `except Exception as e: logger.warning(...); break`
FallbackAfterAttempt(r) == IF r.outcome = "raise" THEN "RANKED" ELSE "RANDOM_FALLBACK"

\* one iteration of the fallback loop: two draws, one randomized attempt;
\* an exception breaks out of the loop
FallbackAttempt ==
    /\ pc = "RANDOM_FALLBACK"
    /\ FallbackNeeded(variants, cfg.num_variants)
    /\ \E shape \in {RandomChoice(shapes_to_try, rng)} :
       \E corridor \in {RandomChoice(corridor_types, RngNext(rng))} :
       \E r \in {generate_single_variant(cfg, buildable_polygon, heap, RngNext(RngNext(rng)),
                                          Len(variants) + 1, shape, corridor, TRUE)} :
           /\ fallback_draw' = <<shape, corridor>>
           /\ variants' = IF Collected(r) THEN Append(variants, r.variant) ELSE variants
           /\ heap' = IF Collected(r) THEN r.heap ELSE heap
           /\ rng' = r.rng
           /\ pc' = FallbackAfterAttempt(r)
    /\ UNCHANGED <<cfg, buildable_polygon, shape_i, corridor_i, variant_id, sweep_log,
                   edits, last_edit, aside>>

\* the fallback loop's condition is false
FallbackExit ==
    /\ pc = "RANDOM_FALLBACK"
    /\ ~FallbackNeeded(variants, cfg.num_variants)
    /\ pc' = "RANKED"
    /\ UNCHANGED <<cfg, buildable_polygon, shape_i, corridor_i, variant_id, variants,
                   heap, rng, sweep_log, fallback_draw, edits, last_edit, aside>>

\* sort, name, return
Rank ==
    /\ pc = "RANKED"
    /\ variants' = AssignNames(SortByScore(variants, <<>>))
    /\ pc' = "RETURNED"
    /\ UNCHANGED <<cfg, buildable_polygon, shape_i, corridor_i, variant_id, heap, rng,
                   sweep_log, fallback_draw, edits, last_edit, aside>>

Next ==
    \/ Start
    \/ SweepAttempt
    \/ SweepBreak
    \/ SweepDone
    \/ FallbackAttempt
    \/ FallbackExit
    \/ Rank

(***************************************************************************)
(* The client: edits of the returned result, through one floor result      *)
(***************************************************************************)
\* what a client reads through a floor result
UnitsView(h, floor) ==
    [k \in 1..Len(h[floor.units].items) |->
        [h[h[floor.units].items[k]] EXCEPT !.ventilation_sides = h[@].items]]
CoresView(h, floor) == [k \in 1..Len(h[floor.cores].items) |-> h[h[floor.cores].items[k]]]
CorridorsView(h, floor) ==
    [k \in 1..Len(h[floor.corridors].items) |-> h[h[floor.corridors].items[k]]]
BoundaryView(h, floor) == h[floor.boundary_polygon].items

\* the floor results of the returned list, as <<variant index, floor index>>
FloorRefs == UNION {{<<v, f>> : f \in 1..Len(variants[v].floors)} : v \in 1..Len(variants)}

\* a PlacedUnit the client constructs
ClientUnit ==
    [id |-> 99, unit_type_id |-> "custom", x |-> 0, y |-> 0, width |-> 300, depth |-> 300,
     rotation |-> 0, floor |-> 0, has_balcony |-> FALSE, ventilation_sides |-> <<>>]

\* the frame of every edit: one more edit, of the given kind, through floor ref
Edited(kind, ref) ==
    /\ edits' = edits + 1
    /\ last_edit' = [kind |-> kind, v |-> ref[1], f |-> ref[2]]
    /\ UNCHANGED <<cfg, buildable_polygon, pc, shape_i, corridor_i, variant_id, variants,
                   rng, sweep_log, fallback_draw, aside>>

\* floor.units.append(PlacedUnit(...))
EditAddUnit ==
    /\ pc = "RETURNED" /\ edits < MaxEdits
    /\ \E ref \in FloorRefs : \E fl \in {variants[ref[1]].floors[ref[2]]} :
          /\ heap' = [heap EXCEPT ![fl.units].items = Append(@, Len(heap) + 2)]
                     \o << ListObj(ClientUnit.ventilation_sides),
                           UnitObj(ClientUnit, Len(heap) + 1) >>
          /\ Edited("add_unit", ref)

\* floor.units.pop()
EditRemoveUnit ==
    /\ pc = "RETURNED" /\ edits < MaxEdits
    /\ \E ref \in FloorRefs : \E fl \in {variants[ref[1]].floors[ref[2]]} :
          /\ heap[fl.units].items # <<>>
          /\ heap' = [heap EXCEPT ![fl.units].items = SubSeq(@, 1, Len(@) - 1)]
          /\ Edited("remove_unit", ref)

\* floor.units[k].<field> += 1
EditUnitField ==
    /\ pc = "RETURNED" /\ edits < MaxEdits
    /\ \E ref \in FloorRefs : \E fl \in {variants[ref[1]].floors[ref[2]]} :
       \E k \in 1..Len(heap[fl.units].items) : \E field \in {"x", "width", "floor"} :
          /\ heap' = [heap EXCEPT ![heap[fl.units].items[k]][field] = @ + 1]
          /\ Edited("unit_field", ref)

\* floor.units[k].ventilation_sides.append("E")
EditVentilation ==
    /\ pc = "RETURNED" /\ edits < MaxEdits
    /\ \E ref \in FloorRefs : \E fl \in {variants[ref[1]].floors[ref[2]]} :
       \E k \in 1..Len(heap[fl.units].items) :
          /\ heap' = [heap EXCEPT ![heap[heap[fl.units].items[k]].ventilation_sides].items =
                                     Append(@, "E")]
          /\ Edited("ventilation", ref)

\* floor.cores[k].lift_count += 1
EditCore ==
    /\ pc = "RETURNED" /\ edits < MaxEdits
    /\ \E ref \in FloorRefs : \E fl \in {variants[ref[1]].floors[ref[2]]} :
       \E k \in 1..Len(heap[fl.cores].items) :
          /\ heap' = [heap EXCEPT ![heap[fl.cores].items[k]].lift_count = @ + 1]
          /\ Edited("core", ref)

\* floor.corridors[k].width += 1
EditCorridor ==
    /\ pc = "RETURNED" /\ edits < MaxEdits
    /\ \E ref \in FloorRefs : \E fl \in {variants[ref[1]].floors[ref[2]]} :
       \E k \in 1..Len(heap[fl.corridors].items) :
          /\ heap' = [heap EXCEPT ![heap[fl.corridors].items[k]].width = @ + 1]
          /\ Edited("corridor", ref)

\* floor.boundary_polygon.pop()
EditBoundary ==
    /\ pc = "RETURNED" /\ edits < MaxEdits
    /\ \E ref \in FloorRefs : \E fl \in {variants[ref[1]].floors[ref[2]]} :
          /\ heap[fl.boundary_polygon].items # <<>>
          /\ heap' = [heap EXCEPT ![fl.boundary_polygon].items = SubSeq(@, 1, Len(@) - 1)]
          /\ Edited("boundary", ref)

ClientNext ==
    \/ Next
    \/ EditAddUnit
    \/ EditRemoveUnit
    \/ EditUnitField
    \/ EditVentilation
    \/ EditCore
    \/ EditCorridor
    \/ EditBoundary

(***************************************************************************)
(* A second run of the same request                                        *)
(***************************************************************************)
\* the requests that are run twice
ReplayRequests ==
    { ScenarioA(1, n, FALSE) : n \in {2, 7} }
    \cup
    { Request(2300, 2000, RegulationConstraints.setbacks, DEFAULT_UNIT_TEMPLATES,
              << <<"1BHK", 50>>, <<"1RK", 50>> >>, 1, 7, FALSE),
      Request(4100, 1180, RegulationConstraints.setbacks, DEFAULT_UNIT_TEMPLATES,
              << <<"2BHK", 60>>, <<"1BHK", 40>> >>, 1, 7, FALSE),
      CatalogWithout2BHK(<< <<"3BHK", 100>> >>, 7) }

\* the first run starts from the random source in state `seed`
ReplayInit ==
    /\ InitRun
    /\ cfg \in ReplayRequests
    /\ earlier = [run |-> 1, seed |-> rng]
    /\ parked = NoRequest
    /\ call = NoCall

\* the first run has returned: its result is kept, the random source is put
\* in state s (random.seed / random.setstate) and generate_variants is called
\* again with the same arguments
Rerun ==
    /\ pc = "RETURNED"
    /\ earlier.run = 1
    /\ \E s \in 0..(RngMod - 1) :
          /\ rng' = s
          /\ earlier' = [run |-> 2, seed |-> earlier.seed, reseed |-> s,
                         drew |-> fallback_draw # NoDraw,
                         variants |-> variants, heap |-> heap]
    /\ pc' = "INIT"
    /\ shape_i' = 1
    /\ corridor_i' = 1
    /\ variant_id' = 0
    /\ variants' = <<>>
    /\ heap' = <<>>
    /\ sweep_log' = <<>>
    /\ fallback_draw' = NoDraw
    /\ UNCHANGED <<cfg, buildable_polygon, edits, last_edit, parked, call>>

ReplayNext ==
    \/ Next
    \/ Rerun

(***************************************************************************)
(* Two requests in one process                                             *)
(***************************************************************************)
\* the requests that are served concurrently
SharedRequests ==
    { ScenarioA(1, 2, FALSE),
      ScenarioA(1, 7, FALSE),
      Request(2300, 2000, RegulationConstraints.setbacks, DEFAULT_UNIT_TEMPLATES,
              << <<"1BHK", 50>>, <<"1RK", 50>> >>, 1, 7, FALSE) }

\* generate_floor_plate_variants is entered twice: each request has its own
\* regulations, optimizer, locals and objects; `random` is the module's one
\* generator, in state rng for both
SharedInit ==
    /\ InitRun
    /\ cfg \in SharedRequests
    /\ \E other \in SharedRequests :
          parked = [cfg |-> other,
                    buildable_polygon |-> apply_setbacks(other.site, other.regulations, 1),
                    pc |-> "INIT", shape_i |-> 1, corridor_i |-> 1, variant_id |-> 0,
                    variants |-> <<>>, heap |-> <<>>, sweep_log |-> <<>>,
                    fallback_draw |-> NoDraw, seed |-> rng]
    /\ earlier = NoRun
    /\ call = NoCall

\* the scheduler suspends the running request and resumes the other one; the
\* random source is not part of either
Switch ==
    /\ parked # NoRequest
    /\ cfg' = parked.cfg
    /\ buildable_polygon' = parked.buildable_polygon
    /\ pc' = parked.pc
    /\ shape_i' = parked.shape_i
    /\ corridor_i' = parked.corridor_i
    /\ variant_id' = parked.variant_id
    /\ variants' = parked.variants
    /\ heap' = parked.heap
    /\ sweep_log' = parked.sweep_log
    /\ fallback_draw' = parked.fallback_draw
    /\ parked' = [cfg |-> cfg, buildable_polygon |-> buildable_polygon, pc |-> pc,
                  shape_i |-> shape_i, corridor_i |-> corridor_i, variant_id |-> variant_id,
                  variants |-> variants, heap |-> heap, sweep_log |-> sweep_log,
                  fallback_draw |-> fallback_draw, seed |-> parked.seed]
    /\ UNCHANGED <<rng, edits, last_edit, earlier, call>>

SharedNext ==
    \/ Next
    \/ Switch

(***************************************************************************)
(* A call of the scorer                                                    *)
(***************************************************************************)
\* the arguments _calculate_variant_score is called with: counts, ratios with
\* four (coverage: six) decimals, dicts as sequences of <<bhk_type, number>>
ScoreCalls ==
    [fn : {"calculate_variant_score"}, returned : {FALSE}, result : {NoCall},
     total_units : {0, 9, 80},
     fsi4 : {0, 12000, 30000},
     coverage6 : {0, 300000, 600000},
     efficiency4 : {-500, 7500, 11300},
     unit_mix : { <<>>, << <<"2BHK", 6>>, <<"1BHK", 3>> >>, << <<"3BHK", 9>> >> },
     target_mix : { <<>>, << <<"2BHK", 60>>, <<"1BHK", 40>> >>, << <<"3BHK", 100>> >>,
                    << <<"2BHK", 0>>, <<"1BHK", 0>> >>, << <<"2BHK", -100>> >>,
                    << <<"2BHK", 20>>, <<"3BHK", 20>> >> }]

\* an optimizer, with the default limits or with limits of its own, and a
\* call of its scorer about to be made
ScoreInit ==
    /\ cfg \in { ScenarioA(1, 1, FALSE),
                 [ScenarioA(1, 1, FALSE) EXCEPT !.regulations.max_fsi10 = 10,
                                                !.regulations.max_coverage = 30] }
    /\ buildable_polygon = apply_setbacks(cfg.site, cfg.regulations, 1)
    /\ pc = "INIT"
    /\ shape_i = 1
    /\ corridor_i = 1
    /\ variant_id = 0
    /\ variants = <<>>
    /\ heap = <<>>
    /\ rng = 0
    /\ sweep_log = <<>>
    /\ fallback_draw = NoDraw
    /\ edits = 0
    /\ last_edit = NoEdit
    /\ earlier = NoRun
    /\ parked = NoRequest
    /\ call \in ScoreCalls

\* self._calculate_variant_score(...) returns
CallScore ==
    /\ call # NoCall
    /\ ~call.returned
    /\ call' = [call EXCEPT !.returned = TRUE,
                            !.result = calculate_variant_score(cfg.regulations,
                                           call.total_units, call.fsi4, call.coverage6,
                                           call.efficiency4, call.unit_mix, call.target_mix)]
    /\ UNCHANGED <<cfg, buildable_polygon, pc, shape_i, corridor_i, variant_id, variants,
                   heap, rng, sweep_log, fallback_draw, edits, last_edit, earlier, parked>>

ScoreNext == CallScore

Spec == Init /\ [][Next]_vars

\* one call of the scorer
ScoreSpec == ScoreInit /\ [][ScoreNext]_vars

\* two requests, their steps interleaved
SharedSpec == SharedInit /\ [][SharedNext]_vars

\* a request run twice
ReplaySpec == ReplayInit /\ [][ReplayNext]_vars

\* the request is run by one thread that always takes its next step
FairSpec == Init /\ [][Next]_vars /\ WF_vars(Next)

\* generation followed by a client that edits what was returned
EditInit == Init /\ cfg \in EditRequests

EditSpec == EditInit /\ [][ClientNext]_vars

(***************************************************************************)
(* Properties                                                              *)
(***************************************************************************)
SiteArea == PolygonArea(SitePolygon(cfg.site))

\* the envelope the deterministic sweep synthesizes for a shape, before any scaling
SweepEnvelope(shape) ==
    create_building_shape(cfg.regulations, shape,
                          PolygonBounds(buildable_polygon).x1 - PolygonBounds(buildable_polygon).x0,
                          PolygonBounds(buildable_polygon).y1 - PolygonBounds(buildable_polygon).y0,
                          PolygonBounds(buildable_polygon).x0,
                          PolygonBounds(buildable_polygon).y0, FALSE, 0).polygon

\* C1: whenever the site has a buildable region, the run eventually reaches
\* RANKED (and returns), even when every attempt yields no variant
C1_ReachesRanked ==
    (pc = "INIT" /\ buildable_polygon # NoPolygon) ~> (pc \in {"RANKED", "RETURNED"})

\* C2: with no buildable region the run goes from INIT straight to RETURNED
\* with an empty list: no attempt is logged, no draw is made, nothing is built
C2_NoBuildableReturnsEmpty ==
    buildable_polygon = NoPolygon =>
        /\ pc \in {"INIT", "RETURNED"}
        /\ variants = <<>>
        /\ sweep_log = <<>>
        /\ fallback_draw = NoDraw
        /\ heap = <<>>

C2_Witness ==
    /\ pc = "RETURNED"
    /\ buildable_polygon = NoPolygon
    /\ cfg.site.W * cfg.site.H = 800000
    /\ cfg.unit_program # <<>>
    /\ cfg.num_variants = 7

\* C3: every collected variant has ground_coverage <= max_coverage, and its
\* ground_coverage is the ratio of the (scaled) envelope it was laid out in
C3_CoverageWithinLimit ==
    \A i \in 1..Len(variants) :
        /\ variants[i].ground_coverage <= cfg.regulations.max_coverage * 10000
        /\ variants[i].ground_coverage =
              Coverage(PolygonArea(BoundaryView(heap, variants[i].floors[1])), SiteArea)

\* a sweep variant whose synthesized envelope exceeded the limit and was scaled
C3_Witness ==
    /\ pc = "RETURNED"
    /\ fallback_draw = NoDraw
    /\ \E i \in 1..Len(variants) :
          /\ Coverage(PolygonArea(SweepEnvelope(variants[i].shape)), SiteArea)
                > cfg.regulations.max_coverage * 10000
          /\ PolygonArea(BoundaryView(heap, variants[i].floors[1]))
                < PolygonArea(SweepEnvelope(variants[i].shape))
          /\ variants[i].ground_coverage > 0

\* C4: every floor result of every variant has 0 <= efficiency <= 1
C4_EfficiencyInUnitInterval ==
    \A i \in 1..Len(variants) : \A f \in 1..Len(variants[i].floors) :
        /\ 0 <= variants[i].floors[f].efficiency
        /\ variants[i].floors[f].efficiency <= 10000

\* C5: every variant's score lies in [0, 100]
C5_ScoreInRange ==
    \A i \in 1..Len(variants) :
        0 <= variants[i].score /\ variants[i].score <= 100000

\* C6: every variant has num_floors floor results, each holding as many units
\* as the first, and total_units is the sum of the floors' unit counts
C6_TotalUnitsIsFloorsTimesUnits ==
    \A i \in 1..Len(variants) :
        /\ Len(variants[i].floors) = cfg.num_floors
        /\ \A f \in 1..Len(variants[i].floors) :
              Len(heap[variants[i].floors[f].units].items)
                 = Len(heap[variants[i].floors[1].units].items)
        /\ variants[i].total_units
              = Len(heap[variants[i].floors[1].units].items) * cfg.num_floors
        /\ variants[i].total_units
              = SumSeq([f \in 1..Len(variants[i].floors) |->
                           Len(heap[variants[i].floors[f].units].items)])

\* a returned variant of a two-storey building over stilt parking
C6_Witness ==
    /\ pc = "RETURNED"
    /\ cfg.num_floors = 2
    /\ cfg.stilt_parking
    /\ \E i \in 1..Len(variants) :
          /\ Len(variants[i].floors) = 2
          /\ variants[i].total_units = 2 * Len(heap[variants[i].floors[2].units].items)
          /\ variants[i].total_units > 0

\* C9: the returned list is ordered by score, best first
C9_SortedByScore ==
    pc = "RETURNED" =>
        \A i \in 1..(Len(variants) - 1) : variants[i].score >= variants[i + 1].score

\* a returned list whose order is not the order of collection, and which
\* holds a variant of the random fallback
C9_Witness ==
    /\ pc = "RETURNED"
    /\ fallback_draw # NoDraw
    /\ \E i \in 1..Len(variants) : \E j \in 1..Len(variants) :
          i < j /\ variants[i].id > variants[j].id /\ variants[i].score > variants[j].score

\* C10: the list never grows beyond num_variants, and once it holds
\* num_variants variants no step logs a sweep attempt or makes a fallback draw
C10_StopsAtRequestedCount ==
    [][/\ Len(variants') <= cfg.num_variants
       /\ (Len(variants) >= cfg.num_variants =>
              sweep_log' = sweep_log /\ fallback_draw' = fallback_draw /\ rng' = rng)]_vars

\* the sweep reached the requested count with pairs of the product left
C10_Witness ==
    /\ pc = "TEMPLATE_SWEEP"
    /\ Len(variants) = cfg.num_variants
    /\ shape_i <= Len(shapes_to_try)
    /\ Len(sweep_log) < Len(shapes_to_try) * Len(corridor_types)

FloorOf(ref) == variants[ref[1]].floors[ref[2]]

UnitEdits == {"add_unit", "remove_unit", "unit_field", "ventilation"}

GeometryEdits == {"core", "corridor", "boundary"}

\* C7: an edit of the units of one floor result (adding or removing a unit,
\* changing a unit's field, appending to its ventilation_sides) leaves the
\* units read through every other floor result, of any variant, unchanged
C7_UnitEditsStayOnTheirFloor ==
    [][(edits' = edits + 1 /\ last_edit'.kind \in UnitEdits) =>
          \A ref \in FloorRefs :
              ref # <<last_edit'.v, last_edit'.f>> =>
                  UnitsView(heap', FloorOf(ref)) = UnitsView(heap, FloorOf(ref))]_vars

\* a ventilation side was appended on one floor of a two-storey variant and
\* the same unit of the other floor does not show it
C7_Witness ==
    /\ edits = 1
    /\ last_edit.kind = "ventilation"
    /\ Len(variants) >= 2
    /\ Len(variants[last_edit.v].floors) = 2
    /\ \E k \in 1..Len(UnitsView(heap, FloorOf(<<last_edit.v, last_edit.f>>))) :
          Len(UnitsView(heap, FloorOf(<<last_edit.v, last_edit.f>>))[k].ventilation_sides)
             > Len(UnitsView(heap, FloorOf(<<last_edit.v, 3 - last_edit.f>>))[k].ventilation_sides)

\* C8: a change of a core, a corridor or the boundary ring made through one
\* floor result leaves the core, corridor and boundary read through every
\* other floor result of the same variant unchanged
C8_GeometryEditsStayOnTheirFloor ==
    [][(edits' = edits + 1 /\ last_edit'.kind \in GeometryEdits) =>
          \A ref \in FloorRefs :
              (ref[1] = last_edit'.v /\ ref[2] # last_edit'.f) =>
                  /\ CoresView(heap', FloorOf(ref)) = CoresView(heap, FloorOf(ref))
                  /\ CorridorsView(heap', FloorOf(ref)) = CorridorsView(heap, FloorOf(ref))
                  /\ BoundaryView(heap', FloorOf(ref)) = BoundaryView(heap, FloorOf(ref))]_vars

\* the shape/corridor product in the order of the two nested loops
SweepPairs ==
    [k \in 1..(Len(shapes_to_try) * Len(corridor_types)) |->
        <<shapes_to_try[((k - 1) \div Len(corridor_types)) + 1],
          corridor_types[((k - 1) % Len(corridor_types)) + 1]>>]

\* the number of pairs the loops have passed at position (shape_i, corridor_i)
SweepPosition == (shape_i - 1) * Len(corridor_types) + (corridor_i - 1)

\* the sweep is about to make an attempt, and that attempt fails: it raises,
\* returns None, or yields no unit
SweepAttemptFails ==
    /\ pc = "TEMPLATE_SWEEP"
    /\ shape_i <= Len(shapes_to_try)
    /\ ~SweepFull(variant_id, cfg.num_variants)
    /\ ~Collected(generate_single_variant(cfg, buildable_polygon, heap, rng, variant_id + 1,
                                          shapes_to_try[shape_i], corridor_types[corridor_i],
                                          RandomizeDefault))

\* a variant of the list has this shape/corridor pair
PairCollected(pair) ==
    \E i \in 1..Len(variants) :
        variants[i].shape = pair[1] /\ variants[i].corridor_type = pair[2]

\* C11: a failed sweep attempt (exception, None, zero units) only skips its
\* pair: the step records nothing, keeps the variants collected so far and
\* moves to the next pair; and while the sweep has collected fewer than
\* num_variants variants, it has attempted every pair up to its position, all
\* six once it is over
C11_FailedPairIsSkipped ==
    /\ [](( /\ buildable_polygon # NoPolygon
            /\ pc # "INIT"
            /\ variant_id < cfg.num_variants)
          => sweep_log = SubSeq(SweepPairs, 1,
                                IF pc = "TEMPLATE_SWEEP" THEN SweepPosition
                                ELSE Len(SweepPairs)))
    /\ [][SweepAttemptFails =>
            /\ variants' = variants
            /\ variant_id' = variant_id
            /\ heap' = heap
            /\ pc' = "TEMPLATE_SWEEP"
            /\ sweep_log' = Append(sweep_log, SweepPairs[SweepPosition + 1])
            /\ SweepPosition' = SweepPosition + 1]_vars

\* the sweep is over; a pair that failed lies between two pairs that were
\* collected
C11_Witness ==
    /\ pc = "RANDOM_FALLBACK"
    /\ fallback_draw = NoDraw
    /\ Len(sweep_log) = Len(SweepPairs)
    /\ \E k1 \in 1..Len(SweepPairs) : \E k2 \in 1..Len(SweepPairs) : \E k3 \in 1..Len(SweepPairs) :
          /\ k1 < k2 /\ k2 < k3
          /\ PairCollected(SweepPairs[k1])
          /\ ~PairCollected(SweepPairs[k2])
          /\ PairCollected(SweepPairs[k3])

\* the fallback loop is about to make an attempt, and that attempt raises
FallbackAttemptRaises ==
    /\ pc = "RANDOM_FALLBACK"
    /\ FallbackNeeded(variants, cfg.num_variants)
    /\ generate_single_variant(cfg, buildable_polygon, heap, RngNext(RngNext(rng)),
                               Len(variants) + 1, RandomChoice(shapes_to_try, rng),
                               RandomChoice(corridor_types, RngNext(rng)), TRUE).outcome = "raise"

\* a list of variants without the names
Unnamed(vs) == [i \in 1..Len(vs) |-> [vs[i] EXCEPT !.name = <<>>]]

\* C12: a fallback attempt that raises ends the fallback loop at once with the
\* list as it was; from there no draw is made and the run returns that list,
\* ordered by score and labelled Option A, B, ... with the shape's title
C12_FallbackRaiseKeepsCollected ==
    /\ [][FallbackAttemptRaises =>
            /\ pc' = "RANKED"
            /\ variants' = variants
            /\ heap' = heap]_vars
    /\ [][pc = "RANKED" =>
            /\ pc' = "RETURNED"
            /\ rng' = rng
            /\ fallback_draw' = fallback_draw
            /\ Len(variants') = Len(variants)
            /\ {Unnamed(variants')[i] : i \in 1..Len(variants')}
                  = {Unnamed(variants)[i] : i \in 1..Len(variants)}
            /\ \A i \in 1..(Len(variants') - 1) : variants'[i].score >= variants'[i + 1].score
            /\ \A i \in 1..Len(variants') :
                  variants'[i].name = [option |-> i - 1, label |-> ShapeTitle(variants'[i].shape)]]_vars

\* a run that returned with fewer than num_variants variants after a fallback
\* draw: the loop was left by the exception's break
C12_Witness ==
    /\ pc = "RETURNED"
    /\ fallback_draw # NoDraw
    /\ Len(variants) < cfg.num_variants
    /\ ~DictHas(cfg.unit_templates, "2BHK")

\* the site eroded by the mean of the configured setbacks, as its pieces
ErodedSite ==
    Buffered(cfg.site, SumSeq(cfg.regulations.setbacks) \div Len(cfg.regulations.setbacks))

\* C13: when the eroded site is empty, in more than one piece, or below 100 sqm,
\* there is no buildable region (buildable_polygon is None, buildable_area 0,
\* and [] is returned); otherwise the buildable region is the eroded polygon
C13_InfeasibleErosionHasNoBuildable ==
    /\ (ErodedSite = <<>> \/ Len(ErodedSite) > 1 \/ BufferedArea(ErodedSite) < MinArea)
          => /\ buildable_polygon = NoPolygon
             /\ BuildableArea(buildable_polygon) = 0
             /\ variants = <<>>
    /\ (Len(ErodedSite) = 1 /\ BufferedArea(ErodedSite) >= MinArea)
          => buildable_polygon = ErodedSite[1]

\* C14: a second run of the same request returns the same list as the first,
\* with the same objects (ids, shapes, corridor types, units, metrics, scores,
\* order), when it starts from the same state of the random source; and when
\* the first run made no fallback draw, from any state of the random source
C14_SameSeedSameVariants ==
    (earlier.run = 2 /\ pc = "RETURNED")
       => ((earlier.reseed = earlier.seed \/ ~earlier.drew)
              => variants = earlier.variants /\ heap = earlier.heap)

\* two runs from the same seed have returned the same list, which holds a
\* variant of the random fallback
C14_Witness ==
    /\ earlier.run = 2
    /\ pc = "RETURNED"
    /\ earlier.reseed = earlier.seed
    /\ earlier.drew
    /\ fallback_draw # NoDraw
    /\ Len(variants) = cfg.num_variants
    /\ variant_id < Len(variants)
    /\ variants = earlier.variants

\* the template sweep run to its end from pair k on
RECURSIVE RunSweep(_, _, _, _, _, _, _)
RunSweep(c, polygon, k, id, vs, h, s) ==
    LET After(r) ==
            IF Collected(r)
            THEN RunSweep(c, polygon, k + 1, id + 1, Append(vs, r.variant), r.heap, r.rng)
            ELSE RunSweep(c, polygon, k + 1, id, vs, h, r.rng)
    IN  IF k > Len(SweepPairs) THEN [variants |-> vs, heap |-> h, rng |-> s]
        ELSE IF SweepFull(id, c.num_variants)
        THEN RunSweep(c, polygon, k + 1, id, vs, h, s)
        ELSE Only({After(r) : r \in {generate_single_variant(c, polygon, h, s, id + 1,
                                        SweepPairs[k][1], SweepPairs[k][2],
                                        RandomizeDefault)}})

\* the fallback loop run to its end; `idle` counts the iterations since the
\* list last grew: after RngMod of them the source is in a state it was in
\* before with the same list, and the loop does not end
RECURSIVE RunFallback(_, _, _, _, _, _)
RunFallback(c, polygon, vs, h, s, idle) ==
    LET After(r) ==
            IF FallbackAfterAttempt(r) = "RANKED"
            THEN [returns |-> TRUE, variants |-> vs, heap |-> h]
            ELSE IF Collected(r)
            THEN RunFallback(c, polygon, Append(vs, r.variant), r.heap, r.rng, 0)
            ELSE RunFallback(c, polygon, vs, h, r.rng, idle + 1)
    IN  IF ~FallbackNeeded(vs, c.num_variants)
        THEN [returns |-> TRUE, variants |-> vs, heap |-> h]
        ELSE IF idle >= RngMod THEN [returns |-> FALSE, variants |-> vs, heap |-> h]
        ELSE Only({After(r) : r \in {generate_single_variant(c, polygon, h,
                                        RngNext(RngNext(s)), Len(vs) + 1,
                                        RandomChoice(shapes_to_try, s),
                                        RandomChoice(corridor_types, RngNext(s)), TRUE)}})

\* generate_variants run alone, with the random source in state s at its call
RunAlone(c, polygon, s) ==
    LET Ranked(f) ==
            [returns |-> f.returns, heap |-> f.heap,
             variants |-> AssignNames(SortByScore(f.variants, <<>>))]
        Fallback(w) == Only({Ranked(f) : f \in {RunFallback(c, polygon, w.variants, w.heap,
                                                             w.rng, 0)}})
    IN  IF NoBuildableArea(polygon) THEN [returns |-> TRUE, heap |-> <<>>, variants |-> <<>>]
        ELSE Only({Fallback(w) : w \in {RunSweep(c, polygon, 1, 0, <<>>, <<>>, s)}})

\* C15: whatever the interleaving of two requests' steps, a request that has
\* returned holds the list (and objects) it returns when it is run alone with
\* the random source in the state it was in when the requests were made
C15_ConcurrentRequestsIndependent ==
    /\ pc = "RETURNED"
          => /\ variants = RunAlone(cfg, buildable_polygon, parked.seed).variants
             /\ heap = RunAlone(cfg, buildable_polygon, parked.seed).heap
    /\ parked.pc = "RETURNED"
          => /\ parked.variants
                   = RunAlone(parked.cfg, parked.buildable_polygon, parked.seed).variants
             /\ parked.heap
                   = RunAlone(parked.cfg, parked.buildable_polygon, parked.seed).heap

\* templates_to_use of the request
RequestPool ==
    LET weighted == TemplatesToUse(cfg.unit_templates, cfg.unit_program,
                                   SumSeq(DictValues(cfg.unit_program)))
    IN  IF weighted = <<>> THEN << DictGet(cfg.unit_templates, "2BHK") >> ELSE weighted

\* unit k of a floor: at least min_unit_width wide; its template's width
\* clipped to what is left of the floor; its id its position in the floor's
\* list; placed where its row starts or where the unit before it in the row
\* left off (past the core if that is where the row had come)
UnitPackedInRow(units, k, b, core) ==
    LET u == units[k]
        first == k = 1 \/ units[k - 1].ventilation_sides # u.ventilation_sides
        x_pos == IF first THEN b.x0 ELSE units[k - 1].x + units[k - 1].width + UnitGap
    IN  /\ u.width >= cfg.regulations.min_unit_width
        /\ \E i \in 1..Len(RequestPool) :
              /\ RequestPool[i].id = u.unit_type_id
              /\ u.width = Min2(RequestPool[i].width, b.x1 - u.x)
        /\ u.id = k - 1
        /\ u.x < b.x1 - MinUnitSpan
        /\ \/ u.x = x_pos
           \/ /\ u.x = core.x + core.width + CoreClearance
              /\ x_pos < core.x + core.width
              /\ x_pos + MinUnitSpan > core.x

\* the last unit of a deterministic row: the loop ended after it because the
\* floor was used up or the next template, clipped, was too narrow
RowStopped(units, k, b, core) ==
    LET after == units[k].x + units[k].width + UnitGap
        x_pos == IF after < core.x + core.width /\ after + MinUnitSpan > core.x
                 THEN core.x + core.width + CoreClearance ELSE after
    IN  \/ ~(x_pos < b.x1 - MinUnitSpan)
        \/ Min2(RequestPool[(k % Len(RequestPool)) + 1].width, b.x1 - x_pos)
              < cfg.regulations.min_unit_width

\* C16: every unit of every floor of every variant is at least min_unit_width
\* wide; each row is packed from its start without a gap, every unit as wide
\* as its template clipped to the rest of the floor; in the sweep's variants the
\* template of a unit is the pool's template for its id (none is substituted)
\* and a row ends where the floor is used up or the clipped width is too small
C16_UnitsAtLeastMinWidth ==
    \A i \in 1..Len(variants) : \A f \in 1..Len(variants[i].floors) :
        \A units \in {UnitsView(heap, variants[i].floors[f])} :
        \A b \in {PolygonBounds(BoundaryView(heap, variants[i].floors[f]))} :
        \A core \in {CoresView(heap, variants[i].floors[f])[1]} :
        \A k \in 1..Len(units) :
            /\ UnitPackedInRow(units, k, b, core)
            /\ fallback_draw = NoDraw
                  => /\ units[k].unit_type_id
                           = RequestPool[((k - 1) % Len(RequestPool)) + 1].id
                     /\ (k = Len(units)
                            \/ units[k + 1].ventilation_sides # units[k].ventilation_sides)
                           => RowStopped(units, k, b, core)

\* a returned variant one of whose rows stopped short of the floor's end, at a
\* 2BHK unit clipped to less than the 8.5 m minimum, and none is narrower
C16_Witness ==
    /\ pc = "RETURNED"
    /\ cfg.regulations.min_unit_width = 850
    /\ \E i \in 1..Len(variants) :
          \E units \in {UnitsView(heap, variants[i].floors[1])} :
          \E b \in {PolygonBounds(BoundaryView(heap, variants[i].floors[1]))} :
          \E k \in 1..Len(units) :
              /\ k = Len(units) \/ units[k + 1].ventilation_sides # units[k].ventilation_sides
              /\ units[k].x + units[k].width + UnitGap < b.x1 - MinUnitSpan
              /\ b.x1 - (units[k].x + units[k].width + UnitGap) < 850
              /\ \A j \in 1..Len(units) : units[j].width >= 850

\* box a within box b
BoxWithin(a, b) == a.x0 >= b.x0 /\ a.y0 >= b.y0 /\ a.x1 <= b.x1 /\ a.y1 <= b.y1

\* C17: on a rectangular site every envelope synthesized (each shape, the
\* deterministic mode and the randomized one in every state of the source)
\* has its bounding box within the buildable region's, before the coverage
\* scale-down and after it, and so has the envelope of every variant collected
C17_EnvelopeWithinBuildable ==
    (cfg.site.gap = 0 /\ buildable_polygon # NoPolygon) =>
        \A bb \in {PolygonBounds(buildable_polygon)} :
            /\ \A k \in 1..Len(shapes_to_try), randomize \in BOOLEAN, s \in 0..(RngMod - 1) :
                  \A made \in {create_building_shape(cfg.regulations, shapes_to_try[k],
                                   bb.x1 - bb.x0, bb.y1 - bb.y0, bb.x0, bb.y0,
                                   randomize, s).polygon} :
                      /\ BoxWithin(PolygonBounds(made), bb)
                      /\ BoxWithin(PolygonBounds(FitCoverage(cfg.regulations, made, SiteArea)), bb)
            /\ \A i \in 1..Len(variants) : \A f \in 1..Len(variants[i].floors) :
                  BoxWithin(PolygonBounds(BoundaryView(heap, variants[i].floors[f])), bb)

\* a count as a percentage of a total of either sign, with two decimals
PercentOf(a, total) ==
    IF total > 0 THEN ScaledDiv(a * 100, total, 2) ELSE ScaledDiv((-a) * 100, -total, 2)

\* the reference formula, in thousandths of a point: each term capped, the
\* mix term left out when `omitted`, the sum capped at 100
ReferenceScore(c, regs, omitted) ==
    LET types == 1..Len(c.target_mix)
        total_target == SumSeq([i \in types |-> c.target_mix[i][2]])
        total_actual == SumSeq([i \in 1..Len(c.unit_mix) |-> c.unit_mix[i][2]])
        Actual(bhk) == SumSeq([i \in 1..Len(c.unit_mix) |->
                                  IF c.unit_mix[i][1] = bhk THEN c.unit_mix[i][2] ELSE 0])
        mix_error == SumSeq([i \in types |->
                        Abs(PercentOf(Actual(c.target_mix[i][1]), total_actual)
                               - PercentOf(c.target_mix[i][2], total_target))])
        unit_score == Min2(30000, c.total_units * 500)
        fsi_score == (Min2(10000, (c.fsi4 * 10) \div regs.max_fsi10) * 25) \div 10
        coverage_score ==
            (Min2(10000, ScaledDiv(c.coverage6, regs.max_coverage * 10000, 4)) * 15) \div 10
        efficiency_score == c.efficiency4 * 2
        mix_score == IF omitted THEN 0 ELSE Max2(0, 10000 - mix_error)
    IN  Min2(100000, unit_score + fsi_score + coverage_score + efficiency_score + mix_score)

\* the scorer has returned
ScoreReturned == call # NoCall /\ call.returned

C19_NoFloorPlateBelowMinArea ==
    \A i \in 1..Len(variants) : \A f \in 1..Len(variants[i].floors) :
        /\ variants[i].floors[f].total_area >= MinArea
        /\ PolygonArea(BoundaryView(heap, variants[i].floors[f])) >= MinArea

\* a floor has a unit in the row above its corridor and one in the row below
UnitOnEachSide(h, floor) ==
    \A corridor \in {CorridorsView(h, floor)[1]} :
        /\ \E k \in 1..Len(UnitsView(h, floor)) :
              /\ UnitsView(h, floor)[k].y >= corridor.y + corridor.depth
              /\ UnitsView(h, floor)[k].ventilation_sides = <<"N">>
        /\ \E k \in 1..Len(UnitsView(h, floor)) :
              /\ UnitsView(h, floor)[k].y + UnitsView(h, floor)[k].depth <= corridor.y
              /\ UnitsView(h, floor)[k].ventilation_sides = <<"S">>

\* Scenario A's request is being served
IsScenarioA == \E n \in 1..7 : cfg = ScenarioA(10, n, TRUE)

\* Scenario A returns a linear, double-loaded variant; every such variant has
\* a unit on each side of the corridor and ten times its floor's units
ScenarioAHolds ==
    (IsScenarioA /\ pc = "RETURNED") =>
        /\ \E i \in 1..Len(variants) :
              variants[i].shape = "linear" /\ variants[i].corridor_type = "double"
        /\ \A i \in 1..Len(variants) :
              (variants[i].shape = "linear" /\ variants[i].corridor_type = "double")
                 => /\ UnitOnEachSide(heap, variants[i].floors[1])
                    /\ variants[i].total_units
                          = Len(UnitsView(heap, variants[i].floors[1])) * 10

\* every double-loaded variant has a unit on each side of the corridor, on
\* every floor
DoubleLoadedBothSides ==
    \A i \in 1..Len(variants) :
        variants[i].corridor_type = "double"
           => \A f \in 1..Len(variants[i].floors) :
                 UnitOnEachSide(heap, variants[i].floors[f])

UnitsOfType(units, bhk) ==
    {k \in 1..Len(units) :
        \E j \in 1..Len(cfg.unit_templates) :
            /\ cfg.unit_templates[j][1] = bhk
            /\ cfg.unit_templates[j][2].id = units[k].unit_type_id}

\* unit_mix has one entry per type placed, worth the units of that type on a
\* floor times num_floors, and the entries add up to total_units
UnitMixCounts(v) ==
    \A units \in {UnitsView(heap, v.floors[1])} :
        /\ \A a, b \in 1..Len(v.unit_mix) : v.unit_mix[a][1] = v.unit_mix[b][1] => a = b
        /\ \A a \in 1..Len(v.unit_mix) :
              /\ UnitsOfType(units, v.unit_mix[a][1]) # {}
              /\ v.unit_mix[a][2]
                    = Cardinality(UnitsOfType(units, v.unit_mix[a][1])) * cfg.num_floors
        /\ \A k \in 1..Len(units) :
              \E a \in 1..Len(v.unit_mix) : k \in UnitsOfType(units, v.unit_mix[a][1])
        /\ SumSeq(DictValues(v.unit_mix)) = v.total_units

\* the request of Scenario C: program {3BHK: 100}, only the 3BHK template
IsScenarioC == cfg.unit_templates = Only3BHK /\ cfg.unit_program = << <<"3BHK", 100>> >>

\* C21, as amended: unit_mix counts the units of each type placed, times
\* num_floors; its keys are requested types, or "2BHK" alone when no requested
\* type is in the pool; in Scenario C it is {3BHK: total_units}
C21_UnitMixCountsPlacedTypes ==
    \A i \in 1..Len(variants) :
        /\ UnitMixCounts(variants[i])
        /\ \/ \A a \in 1..Len(variants[i].unit_mix) :
                 DictHas(cfg.unit_program, variants[i].unit_mix[a][1])
           \/ /\ TemplatesToUse(cfg.unit_templates, cfg.unit_program,
                                SumSeq(DictValues(cfg.unit_program))) = <<>>
              /\ Len(variants[i].unit_mix) = 1
              /\ variants[i].unit_mix[1][1] = "2BHK"
        /\ IsScenarioC => variants[i].unit_mix = << <<"3BHK", variants[i].total_units>> >>

\* C21, as stated: the keys of unit_mix are always requested types
C21_UnitMixKeysRequested ==
    \A i \in 1..Len(variants) :
        /\ UnitMixCounts(variants[i])
        /\ \A a \in 1..Len(variants[i].unit_mix) :
              DictHas(cfg.unit_program, variants[i].unit_mix[a][1])
        /\ IsScenarioC => variants[i].unit_mix = << <<"3BHK", variants[i].total_units>> >>

\* Scenario C has returned a variant of two floors of 3BHK units
C21_Witness ==
    /\ pc = "RETURNED"
    /\ IsScenarioC
    /\ \E i \in 1..Len(variants) :
          /\ variants[i].total_units > 0
          /\ variants[i].unit_mix = << <<"3BHK", variants[i].total_units>> >>
          /\ variants[i].total_units = 2 * Len(UnitsView(heap, variants[i].floors[1]))

\* the depth of the linear envelope synthesized for the buildable region
EnvelopeDepth(randomize, s) ==
    \* by value: the bounding box of the buildable region, then of the envelope
    Only({Only({b.y1 - b.y0
                  : b \in {PolygonBounds(create_building_shape(cfg.regulations, "linear",
                               bb.x1 - bb.x0, bb.y1 - bb.y0, bb.x0, bb.y0,
                               randomize, s).polygon)}})
            : bb \in {PolygonBounds(buildable_polygon)}})

\* C22: the envelope's depth is the available depth times the depth factor,
\* capped at 2 * max_unit_depth + min_corridor_width
C22_DepthCappedByCorridorWidth ==
    buildable_polygon # NoPolygon =>
        \A cap \in {2 * cfg.regulations.max_unit_depth + cfg.regulations.min_corridor_width} :
        \A available_depth \in {PolygonBounds(buildable_polygon).y1
                                   - PolygonBounds(buildable_polygon).y0} :
            /\ EnvelopeDepth(FALSE, 0) = Min2((available_depth * 9000) \div 10000, cap)
            /\ \A s \in 0..(RngMod - 1) :
                  EnvelopeDepth(TRUE, s)
                     = Min2((available_depth * RandomUniform(RngNext(s))) \div 10000, cap)

\* the rectangles of a unit and of a core overlap
OverlapsCore(u, core) ==
    /\ u.x < core.x + core.width
    /\ u.x + u.width > core.x
    /\ Min2(u.y, u.y + u.depth) < core.y + core.depth
    /\ Max2(u.y, u.y + u.depth) > core.y

\* C23: on every floor no unit overlaps the core, and every unit ends at or
\* left of the core's left edge or starts at or right of its right edge + 0.5
C23_UnitsAvoidCore ==
    \A i \in 1..Len(variants) : \A f \in 1..Len(variants[i].floors) :
        \A core \in {CoresView(heap, variants[i].floors[f])[1]} :
        \A units \in {UnitsView(heap, variants[i].floors[f])} :
        \A k \in 1..Len(units) :
            /\ ~OverlapsCore(units[k], core)
            /\ \/ units[k].x + units[k].width <= core.x
               \/ units[k].x >= core.x + core.width + CoreClearance

\* units k and k + 1 of a floor's list are in the same row
SameRow(units, k) == units[k].ventilation_sides = units[k + 1].ventilation_sides

\* C24: in each row every unit starts at least 0.3 m right of the end of the
\* unit before it; every unit lies within the plate's width; in a
\* double-loaded plate the top row's units lie at or above the corridor band
\* and the bottom row's at or below it
C24_RowsLeftToRightWithinPlate ==
    \A i \in 1..Len(variants) : \A f \in 1..Len(variants[i].floors) :
        \A units \in {UnitsView(heap, variants[i].floors[f])} :
        \A b \in {PolygonBounds(BoundaryView(heap, variants[i].floors[f]))} :
        \A corridor \in {CorridorsView(heap, variants[i].floors[f])[1]} :
            /\ \A k \in 1..(Len(units) - 1) :
                  SameRow(units, k)
                     => units[k + 1].x >= units[k].x + units[k].width + UnitGap
            /\ \A k \in 1..Len(units) :
                  /\ b.x0 <= units[k].x
                  /\ units[k].x + units[k].width <= b.x1
                  /\ units[k].width > 0
            /\ variants[i].corridor_type = "double"
                  => \A k \in 1..Len(units) :
                        IF units[k].ventilation_sides = <<"N">>
                        THEN Min2(units[k].y, units[k].y + units[k].depth)
                                >= corridor.y + corridor.depth
                        ELSE Max2(units[k].y, units[k].y + units[k].depth) <= corridor.y

\* the depth of the catalog's template with the given id
TemplateDepth(unit_type_id) ==
    cfg.unit_templates[CHOOSE j \in 1..Len(cfg.unit_templates) :
                          cfg.unit_templates[j][2].id = unit_type_id][2].depth

\* the depth of the band a unit is placed in, from the corridor to the
\* plate's bounding box: below the corridor, or above it for the top row of a
\* double-loaded plate, whose corridor is centred (the two bands are equally
\* deep; to the centimetre, the band above is taken as deep as the one below)
BandDepth(u, b, corridor) ==
    IF u.ventilation_sides = <<"N">>
    THEN Min2(b.y1 - (corridor.y + corridor.depth), corridor.y - b.y0)
    ELSE corridor.y - b.y0

\* C25: every unit is as deep as its template, clipped to max_unit_depth and
\* to the band on its side of the corridor; its depth is positive and it lies
\* between the corridor band and the edge of the plate's bounding box
C25_UnitDepthWithinBand ==
    \A i \in 1..Len(variants) : \A f \in 1..Len(variants[i].floors) :
        \A units \in {UnitsView(heap, variants[i].floors[f])} :
        \A b \in {PolygonBounds(BoundaryView(heap, variants[i].floors[f]))} :
        \A corridor \in {CorridorsView(heap, variants[i].floors[f])[1]} :
        \A k \in 1..Len(units) :
            /\ units[k].depth
                  = Min2(TemplateDepth(units[k].unit_type_id),
                         Min2(cfg.regulations.max_unit_depth,
                              BandDepth(units[k], b, corridor)))
            /\ 0 < units[k].depth
            /\ units[k].depth <= cfg.regulations.max_unit_depth
            /\ IF units[k].ventilation_sides = <<"N">>
               THEN /\ units[k].y >= corridor.y + corridor.depth
                    /\ units[k].y + units[k].depth <= b.y1
               ELSE /\ units[k].y >= b.y0
                    /\ units[k].y + units[k].depth <= corridor.y

\* how often template t occurs in a pool
Occurrences(pool, t) == Cardinality({k \in 1..Len(pool) : pool[k] = t})

\* the requested types that qualify for the pool, as indices of the program
Qualifying ==
    {j \in 1..Len(cfg.unit_program) :
        cfg.unit_program[j][2] > 0 /\ DictHas(cfg.unit_templates, cfg.unit_program[j][1])}

\* the pool holds each qualifying type's template max(1, floor(10 * percent /
\* sum)) times, between 1 and 10, and no other template; it is the 2BHK
\* template alone when no type qualifies
PoolAsRequested ==
    \A total \in {SumSeq(DictValues(cfg.unit_program))} :
        IF Qualifying = {}
        THEN RequestPool = << DictGet(cfg.unit_templates, "2BHK") >>
        ELSE /\ \A j \in Qualifying :
                   \A t \in {DictGet(cfg.unit_templates, cfg.unit_program[j][1])} :
                       /\ Occurrences(RequestPool, t)
                             = Max2(1, (10 * cfg.unit_program[j][2]) \div total)
                       /\ Occurrences(RequestPool, t) \in 1..10
             /\ \A k \in 1..Len(RequestPool) :
                   \E j \in Qualifying :
                       RequestPool[k] = DictGet(cfg.unit_templates, cfg.unit_program[j][1])

\* on the plates of the sweep, unit k (from 0, across the rows) has the
\* template pool[k mod |pool|]
CyclicDraw ==
    fallback_draw = NoDraw =>
        \A i \in 1..Len(variants) : \A f \in 1..Len(variants[i].floors) :
            \A units \in {UnitsView(heap, variants[i].floors[f])} :
            \A k \in 1..Len(units) :
                /\ units[k].id = k - 1
                /\ units[k].unit_type_id = RequestPool[((k - 1) % Len(RequestPool)) + 1].id

\* the pool of the request can be built: sum(unit_program.values()) is not 0
\* where it is divided by, and the 2BHK template exists where it is needed
PoolBuilt ==
    /\ ~PoolRaises(cfg.unit_templates, cfg.unit_program)
    /\ Qualifying = {} => DictHas(cfg.unit_templates, "2BHK")

FixedSweepOrder ==
    << <<"linear", "double">>, <<"linear", "single">>, <<"l_shape", "double">>,
       <<"l_shape", "single">>, <<"u_shape", "double">>, <<"u_shape", "single">> >>

\* C27: the pairs the sweep has attempted are the first pairs of the fixed
\* order, each once; a sweep attempt draws nothing from the random source;
\* the random source is drawn from in the fallback loop only, after the last
\* sweep attempt; every variant has one of the three shapes and one of the
\* two corridor types
C27_SweepOrderThenFallback ==
    /\ [](/\ Len(sweep_log) <= Len(FixedSweepOrder)
          /\ sweep_log = SubSeq(FixedSweepOrder, 1, Len(sweep_log))
          /\ pc = "TEMPLATE_SWEEP" => fallback_draw = NoDraw
          /\ \A i \in 1..Len(variants) :
                /\ variants[i].shape \in {"linear", "l_shape", "u_shape"}
                /\ variants[i].corridor_type \in {"double", "single"})
    /\ [][/\ sweep_log' # sweep_log
             => /\ pc = "TEMPLATE_SWEEP"
                /\ rng' = rng
                /\ fallback_draw' = NoDraw
          /\ (rng' # rng \/ fallback_draw' # fallback_draw)
             => /\ pc = "RANDOM_FALLBACK"
                /\ sweep_log' = sweep_log
          /\ pc = "RANDOM_FALLBACK" => pc' \in {"RANDOM_FALLBACK", "RANKED"}]_vars

\* a request has returned after the six sweep attempts, in order, and a
\* fallback draw that gave it a seventh variant
C27_Witness ==
    /\ pc = "RETURNED"
    /\ sweep_log = FixedSweepOrder
    /\ fallback_draw # NoDraw
    /\ Len(variants) = 7

\* the units of a floor as a client reads them, with every floor field set
\* to 0
UnitsBesidesFloor(h, floor) ==
    [k \in 1..Len(UnitsView(h, floor)) |-> [UnitsView(h, floor)[k] EXCEPT !.floor = 0]]

\* C28: the floors of a variant are numbered consecutively from 1 with stilt
\* parking and from 0 without; every unit carries its floor's number; apart
\* from these numbers every floor reads as the first one does
C28_FloorsAreStampedCopies ==
    \A i \in 1..Len(variants) : \A f \in 1..Len(variants[i].floors) :
        \A floor \in {variants[i].floors[f]} : \A first \in {variants[i].floors[1]} :
            /\ floor.floor_number = (IF cfg.stilt_parking THEN 1 ELSE 0) + f - 1
            /\ \A k \in 1..Len(UnitsView(heap, floor)) :
                  UnitsView(heap, floor)[k].floor = floor.floor_number
            /\ UnitsBesidesFloor(heap, floor) = UnitsBesidesFloor(heap, first)
            /\ CoresView(heap, floor) = CoresView(heap, first)
            /\ CorridorsView(heap, floor) = CorridorsView(heap, first)
            /\ BoundaryView(heap, floor) = BoundaryView(heap, first)
            /\ floor.total_area = first.total_area
            /\ floor.usable_area = first.usable_area
            /\ floor.efficiency = first.efficiency

\* ten floors over stilt parking have been returned, numbered 1 to 10, the
\* tenth with units of floor 10
C28_Witness ==
    /\ pc = "RETURNED"
    /\ cfg.stilt_parking
    /\ \E i \in 1..Len(variants) :
          /\ Len(variants[i].floors) = 10
          /\ variants[i].floors[1].floor_number = 1
          /\ variants[i].floors[10].floor_number = 10
          /\ UnitsView(heap, variants[i].floors[10]) # <<>>
          /\ UnitsView(heap, variants[i].floors[10])[1].floor = 10

\* the U-shaped envelope has the form stated for an envelope of the given
\* bounding box: side wings a quarter of its width and as deep as it, a
\* bottom wing a quarter of its depth, and its own bounding box the same
UShapeAsStated(made, e) ==
    /\ Len(made) = 3
    /\ made[1] = box(e.x0, e.y0, e.x0 + (((e.x1 - e.x0) * 25) \div 100), e.y1)
    /\ made[2] = box(e.x1 - (((e.x1 - e.x0) * 25) \div 100), e.y0, e.x1, e.y1)
    /\ made[3] = box(e.x0, e.y0, e.x1, e.y0 + (((e.y1 - e.y0) * 25) \div 100))
    /\ PolygonBounds(made) = e

\* C29: for the buildable region's width and depth, in the deterministic
\* mode and in the randomized one in every state of the source, the U-shaped
\* envelope is two side wings of 25% of the envelope's width and a bottom
\* wing of 25% of its depth, and its bounding box is the envelope's width by
\* its capped depth (the box of the linear envelope made from the same draws)
C29_UShapeWings ==
    buildable_polygon # NoPolygon =>
        \A bb \in {PolygonBounds(buildable_polygon)} :
        \A randomize \in BOOLEAN, s \in 0..(RngMod - 1) :
            UShapeAsStated(create_building_shape(cfg.regulations, "u_shape",
                               bb.x1 - bb.x0, bb.y1 - bb.y0, bb.x0, bb.y0,
                               randomize, s).polygon,
                           PolygonBounds(create_building_shape(cfg.regulations, "linear",
                               bb.x1 - bb.x0, bb.y1 - bb.y0, bb.x0, bb.y0,
                               randomize, s).polygon))

\* the centre of the core is the point c, to within the 2 cm that the
\* integer halvings and the centimetre centroid can lose
CoreCentredAt(core, c) ==
    /\ Abs((2 * core.x + core.width) - 2 * c.x) <= 4
    /\ Abs((2 * core.y + core.depth) - 2 * c.y) <= 4

\* C30: every floor has exactly one core, 5 m by 7 m with 2 lifts and 2
\* stairs as the medium core template, and the centre of the core is the
\* centroid of the floor's envelope polygon, whatever the envelope's shape
C30_OneMediumCoreAtCentroid ==
    \A i \in 1..Len(variants) : \A f \in 1..Len(variants[i].floors) :
        \A cores \in {CoresView(heap, variants[i].floors[f])} :
        \A boundary \in {BoundaryView(heap, variants[i].floors[f])} :
            /\ Len(cores) = 1
            /\ cores[1].width = 500 /\ cores[1].depth = 700
            /\ cores[1].lift_count = 2 /\ cores[1].stair_count = 2
            /\ CoreCentredAt(cores[1], PolygonCentroid(boundary))

=============================================================================
